---- MODULE Spec2Model ----
(***************************************************************************)
(* A model of the Bitcask storage engine of rust-bitcask                   *)
(* (src/src/kv/bitcask.rs, src/src/io.rs, src/src/kv/entry.rs).            *)
(*                                                                         *)
(* Files are byte sequences held in inodes; a directory maps file names to *)
(* inodes, so that an open handle keeps reading or writing the file it     *)
(* opened after the name was renamed over or unlinked.  Records are         *)
(* encoded and decoded byte by byte as the source does it, through the     *)
(* buffered reader and writer of std::io with their fixed capacity.        *)
(***************************************************************************)
EXTENDS Integers, Sequences, FiniteSets, TLC

(***************************************************************************)
(* Bounds of the model.  The engine's size parameters are scaled down so   *)
(* that rollover, threshold flushes, buffer refills and merges all happen  *)
(* within a few records; their order is the one of the source:             *)
(*   record < DEFAULT_BUF_SIZE < DEFAULT_WRITE_FLUSH_INTERVAL              *)
(*          < log_file_max_bytes                                           *)
(***************************************************************************)
\* capacity of std's BufReader / BufWriter (8192 in std), scaled
DEFAULT_BUF_SIZE == 33
\* DEFAULT_WRITE_FLUSH_INTERVAL (4 MiB in the source), scaled
DEFAULT_WRITE_FLUSH_INTERVAL == 35
\* log_file_max_bytes (1 GiB in the source), scaled: two records a segment
log_file_max_bytes == 40
\* merge_trigger_threshold (1 GiB in the source), scaled
merge_trigger_threshold == 2
\* the active id never exceeds this in the model
MaxFileId == 2
\* number of set/remove/merge/flush/reopen calls of one run
MaxOps == 5

(***************************************************************************)
(* Program constants.                                                      *)
(***************************************************************************)
DELETED_CODE == 255
\* length of the stack buffers [u8; 255] of get, read_log_entry, read_hint_entry
STACK_BUF_LEN == 255
\* bytes of a u64 field
U64_BYTES == 8
\* every decoded u64 of 2^24 or more is represented by this one value
\* (TLC's integers are 32 bits wide; the model never needs to tell two such
\* values apart: they only ever exceed every length and position of a file)
U64_HUGE == 256 * 65536

\* the bytes of the keys and values the callers use (ASCII 'a','b','1','2')
KeyA == <<97>>
KeyB == <<98>>
Val1 == <<49>>
Val2 == <<50>>
Keys == {KeyA, KeyB}
Values == {<< >>, Val1, Val2}

Min(a, b) == IF a < b THEN a ELSE b
Max(a, b) == IF a > b THEN a ELSE b

\* n zero bytes
Zeros(n) == [i \in 1..n |-> 0]
\* the n bytes of f from 0-based offset p (fewer at the end of f)
Bytes(f, p, n) == IF p >= Len(f) THEN << >> ELSE SubSeq(f, p + 1, Min(p + n, Len(f)))
\* b followed by zeros up to length n: the first n bytes of a zeroed stack
\* buffer into which b was read
PadTo(b, n) == IF Len(b) >= n THEN SubSeq(b, 1, n) ELSE b \o Zeros(n - Len(b))

(***************************************************************************)
(* u64 big-endian codec.                                                   *)
(***************************************************************************)
\* u64::to_be_bytes, for the values below 2^24 the engine writes
to_be_bytes(n) ==
    <<0, 0, 0, 0, 0, (n \div 65536) % 256, (n \div 256) % 256, n % 256>>

\* io.rs u8_arr_to_u64: the sum of arr[i] << (56 - 8 i)
u8_arr_to_u64(arr) ==
    IF \E i \in 1..5 : arr[i] # 0
    THEN U64_HUGE
    ELSE arr[6] * 65536 + arr[7] * 256 + arr[8]

\* String::from_utf8 succeeds: over the bytes of this model (ASCII and 0xFF)
\* a sequence is UTF-8 exactly when it has no byte of 128 or more
IsUtf8(b) == \A i \in 1..Len(b) : b[i] < 128

(***************************************************************************)
(* entry.rs: serialization of log and hint entries.                        *)
(***************************************************************************)
SerializeLogEntry(e) ==
    to_be_bytes(e.k_size) \o to_be_bytes(e.v_size) \o e.key \o e.value

SerializeHintEntry(e) ==
    to_be_bytes(e.k_size) \o to_be_bytes(e.v_size) \o to_be_bytes(e.v_pos) \o e.key

(***************************************************************************)
(* io.rs BufReaderWithPos over std::io::BufReader.  A reader is            *)
(* [pos, bend]: its absolute position and the position at which the bytes  *)
(* now in the BufReader's buffer end (pos = bend: the buffer is used up).  *)
(* One read call returns at most what is left in the buffer; only an       *)
(* exhausted buffer is refilled, with up to DEFAULT_BUF_SIZE bytes.        *)
(***************************************************************************)
NewReader == [pos |-> 0, bend |-> 0]

\* BufReaderWithPos::seek(SeekFrom::Start(p)): BufReader::seek drops the buffer
ReaderSeek(p) == [pos |-> p, bend |-> p]

\* BufReaderWithPos::read of a buffer of n >= 1 bytes over file content f
ReaderRead(f, r, n) ==
    IF r.pos = r.bend /\ n >= DEFAULT_BUF_SIZE
    THEN \* a read at least as large as the buffer bypasses it
         LET b == Bytes(f, r.pos, n)
         IN  [bytes |-> b, r |-> [pos |-> r.pos + Len(b), bend |-> r.pos + Len(b)]]
    ELSE LET bend == IF r.pos = r.bend
                     THEN Max(r.pos, Min(r.pos + DEFAULT_BUF_SIZE, Len(f)))
                     ELSE r.bend
             b == Bytes(f, r.pos, Min(n, bend - r.pos))
         IN  [bytes |-> b, r |-> [pos |-> r.pos + Len(b), bend |-> bend]]

\* BufReaderWithPos::read_u64: one read of 8 bytes; None when it returns 0
\* bytes, otherwise the value of the (possibly partly filled) zeroed buffer
U64OfRead(x) ==
    IF Len(x.bytes) = 0
    THEN [some |-> FALSE, val |-> 0, r |-> x.r]
    ELSE [some |-> TRUE, val |-> u8_arr_to_u64(PadTo(x.bytes, U64_BYTES)), r |-> x.r]

read_u64(f, r) == U64OfRead(ReaderRead(f, r, U64_BYTES))

\* reader.take(size).read(&mut buf) with buf a [u8; 255]: Take::read returns
\* at once when the limit is 0, else reads min(255, size) bytes once
TakeRead(f, r, size) ==
    IF size = 0
    THEN [bytes |-> << >>, r |-> r]
    ELSE ReaderRead(f, r, Min(STACK_BUF_LEN, size))

(***************************************************************************)
(* bitcask.rs read_log_entry / read_hint_entry.  The result is             *)
(*   "none"  Ok(None): the first read_u64 found no byte                    *)
(*   "panic" the unwrap/expect of a later read_u64 that found no byte, or  *)
(*           the slice buf[..size] of a 255-byte buffer with size > 255    *)
(*   "some"  the entry, with the reader's position after it                *)
(***************************************************************************)
\* lines 398-408: the value v read after the key k, and the entry
ReadLogValue(ks, vs, k, v) ==
    IF ks.val > STACK_BUF_LEN \/ vs.val > STACK_BUF_LEN
    THEN [tag |-> "panic", r |-> v.r]
    ELSE [tag |-> "some", r |-> v.r, pos |-> v.r.pos,
          k_size |-> ks.val, v_size |-> vs.val,
          key |-> PadTo(k.bytes, ks.val), value |-> PadTo(v.bytes, vs.val)]

\* lines 394-397: the key k read after the sizes
ReadLogKey(f, ks, vs, k) == ReadLogValue(ks, vs, k, TakeRead(f, k.r, vs.val))

\* lines 392-393: v_size read after k_size
ReadLogVSize(f, ks, vs) ==
    IF ~vs.some THEN [tag |-> "panic", r |-> vs.r]
    ELSE ReadLogKey(f, ks, vs, TakeRead(f, vs.r, ks.val))

\* lines 387-391: k_size, None at the end of the file
ReadLogKSize(f, ks) ==
    IF ~ks.some THEN [tag |-> "none", r |-> ks.r]
    ELSE ReadLogVSize(f, ks, read_u64(f, ks.r))

read_log_entry(f, r) == ReadLogKSize(f, read_u64(f, r))

\* lines 427-435: the key k read after the three numbers, and the entry
ReadHintKey(ks, vs, vp, k) ==
    IF ks.val > STACK_BUF_LEN
    THEN [tag |-> "panic", r |-> k.r]
    ELSE [tag |-> "some", r |-> k.r,
          k_size |-> ks.val, v_size |-> vs.val, v_pos |-> vp.val,
          key |-> PadTo(k.bytes, ks.val)]

\* lines 422-426: v_pos read after v_size
ReadHintVPos(f, ks, vs, vp) ==
    IF ~vp.some THEN [tag |-> "panic", r |-> vp.r]
    ELSE ReadHintKey(ks, vs, vp, TakeRead(f, vp.r, ks.val))

\* lines 417-421: v_size read after k_size
ReadHintVSize(f, ks, vs) ==
    IF ~vs.some THEN [tag |-> "panic", r |-> vs.r]
    ELSE ReadHintVPos(f, ks, vs, read_u64(f, vs.r))

\* lines 412-416: k_size, None at the end of the file
ReadHintKSize(f, ks) ==
    IF ~ks.some THEN [tag |-> "none", r |-> ks.r]
    ELSE ReadHintVSize(f, ks, read_u64(f, ks.r))

read_hint_entry(f, r) == ReadHintKSize(f, read_u64(f, r))

(***************************************************************************)
(* The key directory (DashMap<String, IndexEntry>) as a function from key  *)
(* bytes to [file_id, v_pos, v_size].                                      *)
(***************************************************************************)
EmptyMap == [x \in {} |-> 0]
MapPut(m, k, v) == [x \in (DOMAIN m) \cup {k} |-> IF x = k THEN v ELSE m[x]]
MapDel(m, k) == [x \in (DOMAIN m) \ {k} |-> m[x]]

IndexEntry(file_id, v_pos, v_size) ==
    [file_id |-> file_id, v_pos |-> v_pos, v_size |-> v_size]

(***************************************************************************)
(* bitcask.rs load_from_log_file: replays the records of f from offset 0   *)
(* into index; the walk ends at the first read_log_entry that is not       *)
(* Ok(Some).  Result tag: "ok", "err" (a key that is not UTF-8), "panic".  *)
(***************************************************************************)
RECURSIVE LoadLogFrom(_, _, _, _, _)
\* a faulty recovery: a record with an empty value deletes the key too
LoadLogEntryEmptyDeletes(file_id, f, index, useless, e) ==
    IF e.tag = "none" THEN [tag |-> "ok", index |-> index, useless |-> useless]
    ELSE IF e.tag = "panic" THEN [tag |-> "panic", index |-> index, useless |-> useless]
    ELSE IF ~IsUtf8(e.key) THEN [tag |-> "err", index |-> index, useless |-> useless]
    ELSE IF e.value = <<DELETED_CODE>> \/ e.value = << >>
    THEN IF e.key \in DOMAIN index
         THEN LoadLogFrom(file_id, f, e.r, MapDel(index, e.key),
                          useless + index[e.key].v_size + 1)
         ELSE LoadLogFrom(file_id, f, e.r, index, useless)
    ELSE LoadLogFrom(file_id, f, e.r,
                     MapPut(index, e.key, IndexEntry(file_id, e.pos, e.v_size)),
                     IF e.key \in DOMAIN index
                     THEN useless + index[e.key].v_size ELSE useless)

\* lines 340-361: the entry e read, and the rest of the file
LoadLogEntry(file_id, f, index, useless, e) ==
    IF e.tag = "none" THEN [tag |-> "ok", index |-> index, useless |-> useless]
    ELSE IF e.tag = "panic" THEN [tag |-> "panic", index |-> index, useless |-> useless]
    ELSE IF ~IsUtf8(e.key) THEN [tag |-> "err", index |-> index, useless |-> useless]
    ELSE IF e.value = <<DELETED_CODE>>
    THEN \* this key is marked as deleted
         IF e.key \in DOMAIN index
         THEN LoadLogFrom(file_id, f, e.r, MapDel(index, e.key),
                          useless + index[e.key].v_size + 1)
         ELSE LoadLogFrom(file_id, f, e.r, index, useless)
    ELSE LoadLogFrom(file_id, f, e.r,
                     MapPut(index, e.key, IndexEntry(file_id, e.pos, e.v_size)),
                     IF e.key \in DOMAIN index
                     THEN useless + index[e.key].v_size ELSE useless)

LoadLogFrom(file_id, f, r, index, useless) ==
    LoadLogEntry(file_id, f, index, useless, read_log_entry(f, r))

load_from_log_file(file_id, f, index) ==
    LoadLogFrom(file_id, f, ReaderSeek(0), index, 0)

\* bitcask.rs load_from_hint_file
RECURSIVE LoadHintFrom(_, _, _, _)
\* lines 371-381: the entry e read, and the rest of the file
LoadHintEntry(file_id, f, index, e) ==
    IF e.tag = "none" THEN [tag |-> "ok", index |-> index, useless |-> 0]
    ELSE IF e.tag = "panic" THEN [tag |-> "panic", index |-> index, useless |-> 0]
    ELSE IF ~IsUtf8(e.key) THEN [tag |-> "err", index |-> index, useless |-> 0]
    ELSE LoadHintFrom(file_id, f, e.r,
                      MapPut(index, e.key, IndexEntry(file_id, e.v_pos, e.v_size)))

LoadHintFrom(file_id, f, r, index) ==
    LoadHintEntry(file_id, f, index, read_hint_entry(f, r))

load_from_hint_file(file_id, f, index) ==
    LoadHintFrom(file_id, f, ReaderSeek(0), index)

(***************************************************************************)
(* The file system.  dir maps a file name <<id, extension>> to an inode,   *)
(* inode maps an inode number to the bytes of the file.  An engine state   *)
(* s is the record of the struct's fields together with dir and inode:     *)
(*   [dir, inode, index, active_file_id, writer, file_reader,              *)
(*    useless_value_bytes]                                                 *)
(* file_reader maps a segment id to the inode its reader has open.         *)
(***************************************************************************)
log_path(id, extension) == <<id, extension>>

Exists(dir, name) == name \in DOMAIN dir

\* the smallest inode number not in use
FreshInode(inode) == CHOOSE n \in 0..Cardinality(DOMAIN inode) : n \notin DOMAIN inode

\* OpenOptions::open with create(true): the inode of name, made empty if absent
CreateFile(fs, name) ==
    IF Exists(fs.dir, name) THEN fs
    ELSE LET n == FreshInode(fs.inode)
         IN  [dir |-> MapPut(fs.dir, name, n), inode |-> MapPut(fs.inode, n, << >>)]

\* std::fs::rename(from, to), from existing: to names from's inode
Rename(dir, from, to) == MapPut(MapDel(dir, from), to, dir[from])

RECURSIVE SortedSeq(_)
SortedSeq(S) ==
    IF S = {} THEN << >>
    ELSE LET m == CHOOSE x \in S : \A y \in S : x <= y
         IN  <<m>> \o SortedSeq(S \ {m})

\* bitcask.rs get_all_sorted_log_file_id: the ids of the files <id>.log
get_all_sorted_log_file_id(dir) ==
    SortedSeq({n[1] : n \in {x \in DOMAIN dir : x[2] = "log"}})

(***************************************************************************)
(* io.rs BufWriterWithPos over std::io::BufWriter: [ino, pos, flushed,     *)
(* buf], buf the bytes written and not yet in the file.                    *)
(***************************************************************************)
\* the writer's `flushed` counter (bytes pushed to the OS): the end of the
\* file when the writer is made, and pos after each flush
FlushedAtNew(file_end_pos) == file_end_pos
FlushedAfterFlush(w) == w.pos

\* BufWriterWithPos::new: pos is the end of the file
NewWriter(inode, ino) ==
    [ino |-> ino, pos |-> Len(inode[ino]), flushed |-> FlushedAtNew(Len(inode[ino])),
     buf |-> << >>]

\* the file after BufWriter::flush_buf
FlushBuf(inode, w) == [inode EXCEPT ![w.ino] = @ \o w.buf]

\* BufWriterWithPos::flush
WriterFlush(inode, w) ==
    [inode |-> FlushBuf(inode, w), w |-> [w EXCEPT !.buf = << >>, !.flushed = FlushedAfterFlush(w)]]

\* BufWriterWithPos::write: BufWriter::write empties a buffer that cannot take
\* b, and writes b through when b is as large as the buffer
WriterWrite(inode, w, b) ==
    LET spill == Len(b) > DEFAULT_BUF_SIZE - Len(w.buf)
        buf1 == IF spill THEN << >> ELSE w.buf
        ino1 == IF spill THEN FlushBuf(inode, w) ELSE inode
    IN  IF Len(b) >= DEFAULT_BUF_SIZE
        THEN [inode |-> [ino1 EXCEPT ![w.ino] = @ \o b],
              w |-> [w EXCEPT !.buf = buf1, !.pos = w.pos + Len(b)]]
        ELSE [inode |-> ino1,
              w |-> [w EXCEPT !.buf = buf1 \o b, !.pos = w.pos + Len(b)]]

\* a BufWriter going out of scope writes its buffer out
WriterDrop(inode, w) == FlushBuf(inode, w)

(***************************************************************************)
(* bitcask.rs BitcaskEngine::open over the files of fs = [dir, inode].     *)
(* Result: [tag, s] with tag "ok", "err" or "panic".                       *)
(***************************************************************************)
\* lines 168-180: acc = [tag, index, useless, file_reader] after segment id
\* was loaded with result l, and its reader made
OpenLoaded(fs, acc, id, l) ==
    [tag |-> l.tag, index |-> l.index, useless |-> acc.useless + l.useless,
     file_reader |-> MapPut(acc.file_reader, id, fs.dir[log_path(id, "log")])]

RECURSIVE OpenLoad(_, _, _)
\* the loop over log_id_list
OpenLoad(fs, ids, acc) ==
    IF ids = << >> \/ acc.tag # "ok" THEN acc
    ELSE OpenLoad(fs, Tail(ids),
             OpenLoaded(fs, acc, Head(ids),
                 IF Exists(fs.dir, log_path(Head(ids), "hint"))
                 THEN load_from_hint_file(Head(ids),
                          fs.inode[fs.dir[log_path(Head(ids), "hint")]], acc.index)
                 ELSE load_from_log_file(Head(ids),
                          fs.inode[fs.dir[log_path(Head(ids), "log")]], acc.index)))

\* lines 183-204: the active file, its writer and reader, and the engine
OpenActive(fs1, acc, active_file_id) ==
    [tag |-> acc.tag,
     s |-> [dir |-> fs1.dir, inode |-> fs1.inode,
            index |-> acc.index,
            active_file_id |-> active_file_id,
            writer |-> NewWriter(fs1.inode, fs1.dir[log_path(active_file_id, "log")]),
            file_reader |-> MapPut(acc.file_reader, active_file_id,
                                   fs1.dir[log_path(active_file_id, "log")]),
            useless_value_bytes |-> acc.useless]]

\* lines 161-182: the segments log_id_list loaded in order
OpenFiles(fs, log_id_list, active_file_id) ==
    OpenActive(CreateFile(fs, log_path(active_file_id, "log")),
               OpenLoad(fs, log_id_list,
                        [tag |-> "ok", index |-> EmptyMap, useless |-> 0,
                         file_reader |-> EmptyMap]),
               active_file_id)

\* a faulty open: the active id is taken to be the number of segments less
\* one, as if the ids had no gap
OpenIdsContiguous(fs, log_id_list) ==
    OpenFiles(fs, log_id_list,
              IF Len(log_id_list) = 0 THEN 0 ELSE Len(log_id_list) - 1)

OpenIds(fs, log_id_list) ==
    OpenFiles(fs, log_id_list,
              IF Len(log_id_list) = 0 THEN 0 ELSE log_id_list[Len(log_id_list)])

open(fs) == OpenIds(fs, get_all_sorted_log_file_id(fs.dir))

(***************************************************************************)
(* bitcask.rs BitcaskEngine::write_and_flush, the whole critical section   *)
(* of the active writer's mutex.  Result: [s, file_id, pos].               *)
(***************************************************************************)
NeedsRollover(s, size) == s.writer.pos + size > log_file_max_bytes

\* the engine with the outcome x = [inode, w] of an operation of its writer
WithWriter(s, x) == [s EXCEPT !.inode = x.inode, !.writer = x.w]

\* bitcask.rs BitcaskEngine::flush
flush(s) == WithWriter(s, WriterFlush(s.inode, s.writer))

\* lines 134-142: the file now_file_id of fs1 becomes the active file, with a
\* new writer and a new reader
RollTo(s, fs1, now_file_id) ==
    [s EXCEPT !.active_file_id = now_file_id,
              !.dir = fs1.dir, !.inode = fs1.inode,
              !.writer = NewWriter(fs1.inode, fs1.dir[log_path(now_file_id, "log")]),
              !.file_reader = MapPut(s.file_reader, now_file_id,
                                     fs1.dir[log_path(now_file_id, "log")])]

\* lines 131-143: writer.flush(), then the next file is created
Rollover(s) ==
    RollTo(s, CreateFile([dir |-> s.dir, inode |-> FlushBuf(s.inode, s.writer)],
                         log_path(s.active_file_id + 1, "log")),
           s.active_file_id + 1)

\* lines 146-150: the flush every DEFAULT_WRITE_FLUSH_INTERVAL bytes
FlushAtInterval(s) ==
    IF s.writer.pos - s.writer.flushed >= DEFAULT_WRITE_FLUSH_INTERVAL
    THEN flush(s) ELSE s

\* lines 144-151: the write into the active file, and the result
WriteActive(s, buf) == FlushAtInterval(WithWriter(s, WriterWrite(s.inode, s.writer, buf)))

WriteResult(s) == [s |-> s, file_id |-> s.active_file_id, pos |-> s.writer.pos]

write_and_flush(s, buf) ==
    WriteResult(WriteActive(IF NeedsRollover(s, Len(buf)) THEN Rollover(s) ELSE s, buf))

(***************************************************************************)
(* Results of the engine's calls.                                          *)
(***************************************************************************)
Ok == [tag |-> "Ok", val |-> << >>]
None == [tag |-> "None", val |-> << >>]
Some(v) == [tag |-> "Some", val |-> v]
KeyNotFound == [tag |-> "KeyNotFound", val |-> << >>]
\* InnerErr("get file reader")
InnerErr == [tag |-> "InnerErr", val |-> << >>]
\* IOErr or SystemErr (FromUtf8Error)
Err == [tag |-> "Err", val |-> << >>]
Panic == [tag |-> "Panic", val |-> << >>]

\* a faulty get: an entry whose segment has no reader reads as an absent key
getMissingReaderIsNone(s, key) ==
    IF key \notin DOMAIN s.index THEN {None} ELSE
    LET e == s.index[key] IN
    IF e.file_id \notin DOMAIN s.file_reader THEN {None}
    ELSE IF e.v_pos < e.v_size \/ e.v_pos >= U64_HUGE \/ e.v_size >= U64_HUGE
    THEN {Panic, Err}
    ELSE LET f == s.inode[s.file_reader[e.file_id]]
             x == TakeRead(f, ReaderSeek(e.v_pos - e.v_size), e.v_size)
         IN  IF e.v_size > STACK_BUF_LEN THEN {Panic}
             ELSE IF ~IsUtf8(PadTo(x.bytes, e.v_size)) THEN {Err}
             ELSE {Some(PadTo(x.bytes, e.v_size))}

(***************************************************************************)
(* bitcask.rs BitcaskEngine::get: the set of results the call can have.    *)
(* v_pos - v_size below zero is a u64 overflow: a panic where overflow is  *)
(* checked, otherwise a seek to an offset the OS rejects.                  *)
(***************************************************************************)
get(s, key) ==
    IF key \notin DOMAIN s.index THEN {None} ELSE
    LET e == s.index[key] IN
    IF e.file_id \notin DOMAIN s.file_reader THEN {InnerErr}
    ELSE IF e.v_pos < e.v_size \/ e.v_pos >= U64_HUGE \/ e.v_size >= U64_HUGE
    THEN {Panic, Err}
    ELSE LET f == s.inode[s.file_reader[e.file_id]]
             x == TakeRead(f, ReaderSeek(e.v_pos - e.v_size), e.v_size)
         IN  IF e.v_size > STACK_BUF_LEN THEN {Panic}
             ELSE IF ~IsUtf8(PadTo(x.bytes, e.v_size)) THEN {Err}
             ELSE {Some(PadTo(x.bytes, e.v_size))}

(***************************************************************************)
(* useless_value_bytes is an AtomicU64: fetch_sub wraps around.  A value   *)
(* below zero stands for that value plus 2^64.                             *)
(***************************************************************************)
ExceedsThreshold(u) == u < 0 \/ u > merge_trigger_threshold

(***************************************************************************)
(* bitcask.rs BitcaskEngine::merge.                                        *)
(***************************************************************************)
\* gen_merge_process_writer_pair: <id>.log.temp and <id>.hint.temp, opened
\* with create and append
WriterPair(fs2, id) ==
    [dir |-> fs2.dir, inode |-> fs2.inode,
     lw |-> NewWriter(fs2.inode, fs2.dir[log_path(id, "log.temp")]),
     hw |-> NewWriter(fs2.inode, fs2.dir[log_path(id, "hint.temp")])]

gen_merge_process_writer_pair(fs, id) ==
    WriterPair(CreateFile(CreateFile(fs, log_path(id, "log.temp")),
                          log_path(id, "hint.temp")), id)

\* both merge writers written out (flush, or the drop of the pair)
FlushPair(m) ==
    LET a == WriterFlush(m.inode, m.lw)
        b == WriterFlush(a.inode, m.hw)
    IN  [m EXCEPT !.inode = b.inode, !.lw = a.w, !.hw = b.w]

\* lines 218-248: one record e of old segment id.
\* m = [tag, dir, inode, lw, hw, merged, useless]
\* lines 232-235: the merge rolls over to the next pair of .temp files pr
MergeRolled(m, pr) ==
    [m EXCEPT !.dir = pr.dir, !.inode = pr.inode, !.lw = pr.lw, !.hw = pr.hw,
              !.merged = m.merged + 1]

MergeRoll(m, fl) ==
    MergeRolled(m, gen_merge_process_writer_pair([dir |-> fl.dir, inode |-> fl.inode],
                                                 m.merged + 1))

\* lines 237-247: the record and its hint entry are written
MergeCopy(m1, e) ==
    LET w1 == WriterWrite(m1.inode, m1.lw, SerializeLogEntry(e))
        hint_entry == [k_size |-> e.k_size, v_size |-> e.v_size,
                       v_pos |-> w1.w.pos, key |-> e.key]
        w2 == WriterWrite(w1.inode, m1.hw, SerializeHintEntry(hint_entry))
    IN  [m1 EXCEPT !.inode = w2.inode, !.lw = w1.w, !.hw = w2.w]

\* a faulty merge: a superseded record is copied like the live one
MergeRecordCopiesExpired(m, id, e, index) ==
    IF ~IsUtf8(e.key) THEN [m EXCEPT !.tag = "err"]
    ELSE IF e.key \notin DOMAIN index
    THEN [m EXCEPT !.useless = m.useless - 1]
    ELSE MergeCopy(IF Len(SerializeLogEntry(e)) + m.lw.pos > log_file_max_bytes
                   THEN MergeRoll(m, FlushPair(m)) ELSE m, e)

MergeRecord(m, id, e, index) ==
    IF ~IsUtf8(e.key) THEN [m EXCEPT !.tag = "err"]
    ELSE IF e.key \notin DOMAIN index
    THEN \* this log has been deleted
         [m EXCEPT !.useless = m.useless - 1]
    ELSE IF ~(index[e.key].file_id = id /\ index[e.key].v_pos = e.pos)
    THEN \* this log has been expired
         [m EXCEPT !.useless = m.useless - e.v_size]
    ELSE \* this log is up to date
         MergeCopy(IF Len(SerializeLogEntry(e)) + m.lw.pos > log_file_max_bytes
                   THEN MergeRoll(m, FlushPair(m)) ELSE m, e)

RECURSIVE MergeScanFile(_, _, _, _, _)
\* the while loop of line 217 over the records of old segment id
MergeScanEntry(m, id, f, index, e) ==
    IF m.tag # "ok" \/ e.tag = "none" THEN m
    ELSE IF e.tag = "panic" THEN [m EXCEPT !.tag = "panic"]
    ELSE MergeScanFile(MergeRecord(m, id, e, index), id, f, e.r, index)

MergeScanFile(m, id, f, r, index) ==
    MergeScanEntry(m, id, f, index, read_log_entry(f, r))

RECURSIVE MergeScanIds(_, _, _)
\* the for loop of line 215 over old_log_file_ids
MergeScanIds(m, ids, index) ==
    IF ids = << >> \/ m.tag # "ok" THEN m
    ELSE IF ~Exists(m.dir, log_path(Head(ids), "log")) THEN [m EXCEPT !.tag = "err"]
    ELSE MergeScanIds(
             MergeScanFile(m, Head(ids), m.inode[m.dir[log_path(Head(ids), "log")]],
                           NewReader, index),
             Tail(ids), index)

\* lines 208-252: list the segments, write the .temp files, flush them.
\* Result: [tag, s, old, merged]
\* line 212: the first pair pr of .temp files, nothing merged yet
MergeFirst(s, pr) ==
    [tag |-> "ok", dir |-> pr.dir, inode |-> pr.inode, lw |-> pr.lw, hw |-> pr.hw,
     merged |-> 0, useless |-> s.useless_value_bytes]

\* lines 251-252: the pair is flushed
MergeScanned(s, old_log_file_ids, fl) ==
    [tag |-> fl.tag,
     s |-> [s EXCEPT !.dir = fl.dir, !.inode = fl.inode,
                     !.useless_value_bytes = fl.useless],
     old |-> old_log_file_ids, merged |-> fl.merged]

MergeScanOld(s, old_log_file_ids) ==
    MergeScanned(s, old_log_file_ids,
        FlushPair(MergeScanIds(
            MergeFirst(s, gen_merge_process_writer_pair([dir |-> s.dir, inode |-> s.inode], 0)),
            old_log_file_ids, s.index)))

MergeScanAll(s, ids) ==
    IF Len(ids) = 0 THEN [tag |-> "panic", s |-> s, old |-> << >>, merged |-> 0]
    ELSE MergeScanOld(s, SubSeq(ids, 1, Len(ids) - 1))

MergeScan(s) == MergeScanAll(s, get_all_sorted_log_file_id(s.dir))

\* line 257: self.file_reader.remove(id)
MergeEvictReader(s, id) == [s EXCEPT !.file_reader = MapDel(s.file_reader, id)]

\* lines 258-259: remove_file(<id>.log)
MergeRemoveFile(s, id) ==
    IF Exists(s.dir, log_path(id, "log"))
    THEN [tag |-> "ok", s |-> [s EXCEPT !.dir = MapDel(s.dir, log_path(id, "log"))]]
    ELSE [tag |-> "err", s |-> s]

TempExt(ext) == IF ext = "log" THEN "log.temp" ELSE "hint.temp"

\* lines 265-270: rename <id>.<ext>.temp to <id>.<ext>
MergeRename(s, id, ext) ==
    IF Exists(s.dir, log_path(id, TempExt(ext)))
    THEN [tag |-> "ok",
          s |-> [s EXCEPT !.dir = Rename(s.dir, log_path(id, TempExt(ext)),
                                         log_path(id, ext))]]
    ELSE [tag |-> "err", s |-> s]

\* lines 273-274: open <id>.log and install its reader
MergeInstallReader(s, id) ==
    IF Exists(s.dir, log_path(id, "log"))
    THEN [tag |-> "ok",
          s |-> [s EXCEPT !.file_reader =
                     MapPut(s.file_reader, id, s.dir[log_path(id, "log")])]]
    ELSE [tag |-> "err", s |-> s]

\* lines 277-278: load <id>.hint into the key directory
MergeLoaded(s, h) == [tag |-> h.tag, s |-> [s EXCEPT !.index = h.index]]

MergeLoadHint(s, id) ==
    IF ~Exists(s.dir, log_path(id, "hint")) THEN [tag |-> "err", s |-> s]
    ELSE MergeLoaded(s, load_from_hint_file(id, s.inode[s.dir[log_path(id, "hint")]],
                                            s.index))

RECURSIVE MergeRemoveOld(_, _)
\* the for loop of lines 255-260; x = [tag, s]
MergeRemoveOld(x, ids) ==
    IF ids = << >> \/ x.tag # "ok" THEN x
    ELSE MergeRemoveOld(MergeRemoveFile(MergeEvictReader(x.s, Head(ids)), Head(ids)),
                        Tail(ids))

\* the body of the for loop of lines 263-279 for one id
MergeThen3(c, id) == IF c.tag # "ok" THEN c ELSE MergeLoadHint(c.s, id)
MergeThen2(b, id) == IF b.tag # "ok" THEN b ELSE MergeThen3(MergeInstallReader(b.s, id), id)
MergeThen1(a, id) == IF a.tag # "ok" THEN a ELSE MergeThen2(MergeRename(a.s, id, "hint"), id)
MergeUpdateOne(s, id) == MergeThen1(MergeRename(s, id, "log"), id)

RECURSIVE MergeUpdate(_, _, _)
MergeUpdate(x, id, merged) ==
    IF id > merged \/ x.tag # "ok" THEN x
    ELSE MergeUpdate(MergeUpdateOne(x.s, id), id + 1, merged)

\* the whole of merge, run by one thread with no other thread running
MergeAfterScan(sc) ==
    IF sc.tag # "ok" THEN [tag |-> sc.tag, s |-> sc.s]
    ELSE MergeUpdate(MergeRemoveOld([tag |-> "ok", s |-> sc.s], sc.old), 0, sc.merged)

merge(s) == MergeAfterScan(MergeScan(s))

(***************************************************************************)
(* bitcask.rs set and remove.  Result: [tag, s], tag "ok", "err", "panic"  *)
(* or "notfound".                                                          *)
(***************************************************************************)
LogEntry(key, value) ==
    [k_size |-> Len(key), v_size |-> Len(value), key |-> key, value |-> value]

\* lines 62-68 and 104-110: account the displaced entry, merge over threshold
Threshold_(s1) ==
    IF ExceedsThreshold(s1.useless_value_bytes) THEN merge(s1) ELSE [tag |-> "ok", s |-> s1]

Account(s, bytes) ==
    Threshold_([s EXCEPT !.useless_value_bytes = s.useless_value_bytes + bytes])

\* lines 56-69: the key directory and the accounting after the write w
SetIndexed(w, key, value) ==
    IF key \in DOMAIN w.s.index
    THEN Account([w.s EXCEPT !.index = MapPut(w.s.index, key,
                                              IndexEntry(w.file_id, w.pos, Len(value)))],
                 w.s.index[key].v_size)
    ELSE [tag |-> "ok",
          s |-> [w.s EXCEPT !.index = MapPut(w.s.index, key,
                                             IndexEntry(w.file_id, w.pos, Len(value)))]]

set(s, key, value) ==
    SetIndexed(write_and_flush(s, SerializeLogEntry(LogEntry(key, value))), key, value)

\* a faulty remove: the tombstone is written, the key stays in the directory
RemoveIndexedKeepsKey(w, key) ==
    Account(w.s, w.s.index[key].v_size + 1)

\* lines 104-111: the key directory and the accounting after the write w
RemoveIndexed(w, key) ==
    Account([w.s EXCEPT !.index = MapDel(w.s.index, key)], w.s.index[key].v_size + 1)

\* a faulty remove: a tombstone is written for an absent key too
removeWritesAlways(s, key) ==
    IF key \notin DOMAIN s.index
    THEN [tag |-> "notfound",
          s |-> write_and_flush(s, SerializeLogEntry(LogEntry(key, <<DELETED_CODE>>))).s]
    ELSE RemoveIndexed(write_and_flush(s, SerializeLogEntry(LogEntry(key, <<DELETED_CODE>>))),
                       key)

remove(s, key) ==
    IF key \notin DOMAIN s.index THEN [tag |-> "notfound", s |-> s]
    ELSE RemoveIndexed(write_and_flush(s, SerializeLogEntry(LogEntry(key, <<DELETED_CODE>>))),
                       key)

(***************************************************************************)
(* set when one of its I/O calls returns an error: the `?` after the call  *)
(* returns from set.  p names the failing call, which itself changes       *)
(* nothing; what set did before it stays done.                             *)
(***************************************************************************)
FaultPoints == {"roll_flush", "roll_create", "roll_reader", "write", "flush", "merge"}

\* the engine set leaves when call p fails: s1 is the engine at line 147
\* (after the rollover, if there is one), w what write_and_flush returns
\* when nothing fails ("merge": merge fails at its first call, line 208)
SetFailingAt(s, s1, w, key, value, p) ==
    CASE p = "roll_flush" -> [s EXCEPT !.active_file_id = s.active_file_id + 1]
      [] p = "roll_create" -> [flush(s) EXCEPT !.active_file_id = s.active_file_id + 1]
      [] p = "roll_reader" -> [s1 EXCEPT !.file_reader = s.file_reader]
      [] p = "write" -> s1
      [] p = "flush" ->
           WithWriter(s1, WriterWrite(s1.inode, s1.writer,
                                      SerializeLogEntry(LogEntry(key, value))))
      [] OTHER ->
           [w.s EXCEPT !.index = MapPut(w.s.index, key,
                                        IndexEntry(w.file_id, w.pos, Len(value))),
                       !.useless_value_bytes =
                           @ + (IF key \in DOMAIN w.s.index
                                THEN w.s.index[key].v_size ELSE 0)]

set_failing(s, key, value, p) ==
    SetFailingAt(s,
                 IF NeedsRollover(s, Len(SerializeLogEntry(LogEntry(key, value))))
                 THEN Rollover(s) ELSE s,
                 write_and_flush(s, SerializeLogEntry(LogEntry(key, value))),
                 key, value, p)

\* set(key, value) on s makes the call p
SetReaches(s, key, value, p) ==
    CASE p \in {"roll_flush", "roll_create", "roll_reader"} ->
           NeedsRollover(s, Len(SerializeLogEntry(LogEntry(key, value))))
      [] p = "write" -> TRUE
      [] p = "flush" ->
           set_failing(s, key, value, p).writer.pos
             - set_failing(s, key, value, p).writer.flushed >= DEFAULT_WRITE_FLUSH_INTERVAL
      [] OTHER ->
           /\ key \in DOMAIN s.index
           /\ ExceedsThreshold(set_failing(s, key, value, p).useless_value_bytes)

(***************************************************************************)
(* The state machine.                                                      *)
(***************************************************************************)
VARIABLES
    dir,                  \* the base directory: file name -> inode
    inode,                \* inode -> bytes of the file
    index,                \* BitcaskEngine.index
    active_file_id,       \* BitcaskEngine.active_file_id
    writer,               \* BitcaskEngine.active_file_writer
    file_reader,          \* BitcaskEngine.file_reader
    useless_value_bytes,  \* BitcaskEngine.useless_value_bytes
    status,               \* "open": the engine exists; "closed": it was dropped
    vals,                 \* the values the callers pass to set
    kv,                   \* history: the map the successful calls define
    last,                 \* history: the last call and its result
    hist,                 \* history: which calls were made, and whether all succeeded
    nops,                 \* history: number of calls made
    thr,                  \* concurrent callers: thread -> its call and position in it
    wlog,                 \* history: the records appended by concurrent callers
    conn,                 \* server: the connection of a handler, and its frames
    lk                    \* locks: thread -> the locks its call takes, and those it holds

vars == <<dir, inode, index, active_file_id, writer, file_reader,
          useless_value_bytes, status, vals, kv, last, hist, nops, thr, wlog, conn, lk>>

\* the engine state as one record
St == [dir |-> dir, inode |-> inode, index |-> index,
       active_file_id |-> active_file_id, writer |-> writer,
       file_reader |-> file_reader, useless_value_bytes |-> useless_value_bytes]

Range(f) == {f[x] : x \in DOMAIN f}

\* inodes no name and no open handle refers to are gone
Gc(s) ==
    LET live == Range(s.dir) \cup Range(s.file_reader) \cup {s.writer.ino}
    IN  [s EXCEPT !.inode = [n \in (DOMAIN s.inode) \cap live |-> s.inode[n]]]

Install(s) ==
    /\ dir' = s.dir
    /\ inode' = s.inode
    /\ index' = s.index
    /\ active_file_id' = s.active_file_id
    /\ writer' = s.writer
    /\ file_reader' = s.file_reader
    /\ useless_value_bytes' = s.useless_value_bytes

Install0(s) ==
    /\ dir = s.dir
    /\ inode = s.inode
    /\ index = s.index
    /\ active_file_id = s.active_file_id
    /\ writer = s.writer
    /\ file_reader = s.file_reader
    /\ useless_value_bytes = s.useless_value_bytes

\* the fields of a dropped engine
NoWriter == [ino |-> -1, pos |-> 0, flushed |-> 0, buf |-> << >>]

\* the engine goes out of scope (a clean close, or the unwinding of a panic):
\* the active writer's buffer is written out, all handles are closed
Dropped(s) ==
    LET ino1 == WriterDrop(s.inode, s.writer)
    IN  [dir |-> s.dir,
         inode |-> [n \in (DOMAIN ino1) \cap Range(s.dir) |-> ino1[n]],
         index |-> EmptyMap, active_file_id |-> 0, writer |-> NoWriter,
         file_reader |-> EmptyMap, useless_value_bytes |-> 0]

\* the result of get for every key the callers use
Gets(s) == [k \in Keys |-> get(s, k)]

\* what get(k) returns by the map of the successful calls
Expected(k) == IF k \in DOMAIN kv THEN Some(kv[k]) ELSE None

Call(op, key, val, res, mpre) ==
    [op |-> op, key |-> key, val |-> val, res |-> res, mpre |-> mpre]

\* hist after a call of kind op with result res: ops are the kinds of calls
\* made, clean says that none failed (wasClean: none before the last one),
\* afterFlush that no call but get was made since the last flush, removed
\* are the keys some remove has deleted, sinceTorn the keys set or removed
\* after the process died in a write
Record(op, key, res) ==
    [ops |-> hist.ops \cup {op},
     clean |-> hist.clean /\ (op = "get" \/ res \in {Ok, KeyNotFound}),
     wasClean |-> hist.clean,
     afterFlush |-> IF op = "get" THEN hist.afterFlush ELSE op = "flush",
     removed |-> IF op = "remove" /\ res = Ok THEN hist.removed \cup {key}
                 ELSE hist.removed,
     sinceTorn |-> IF "torn" \in hist.ops /\ op \in {"set", "remove"} /\ res = Ok
                   THEN hist.sinceTorn \cup {key} ELSE hist.sinceTorn]

\* the result tag of set/remove/merge as a call result
ResultOf(tag) ==
    CASE tag = "ok" -> Ok
      [] tag = "err" -> Err
      [] tag = "notfound" -> KeyNotFound
      [] OTHER -> Panic

\* what every get returned where set/remove started an inline merge: after
\* the write w, with the key directory idx and bytes more useless bytes
MergeStart(w, idx, bytes) ==
    IF ExceedsThreshold(w.s.useless_value_bytes + bytes)
    THEN Gets([w.s EXCEPT !.index = idx])
    ELSE EmptyMap

\* after a call that returned tag from state s: a panic ends the process
After(tag, s) ==
    IF tag = "panic"
    THEN Install(Dropped(s)) /\ status' = "closed"
    ELSE Install(Gc(s)) /\ status' = "open"

\* a call op(key, val) returned r = [tag, s]
Returned(op, key, val, r, mpre) ==
    /\ After(r.tag, r.s)
    /\ last' = Call(op, key, val, ResultOf(r.tag), mpre)
    /\ hist' = Record(op, key, ResultOf(r.tag))
    /\ kv' = CASE op = "set" /\ r.tag = "ok" -> MapPut(kv, key, val)
               [] op = "remove" /\ r.tag = "ok" -> MapDel(kv, key)
               [] OTHER -> kv

SetMergeStart(w, key, value) ==
    IF key \in DOMAIN index
    THEN MergeStart(w, MapPut(index, key, IndexEntry(w.file_id, w.pos, Len(value))),
                    index[key].v_size)
    ELSE EmptyMap

Set(key, value) ==
    /\ status = "open" /\ nops < MaxOps
    /\ NeedsRollover(St, Len(SerializeLogEntry(LogEntry(key, value))))
           => active_file_id < MaxFileId
    /\ Returned("set", key, value, set(St, key, value),
                SetMergeStart(write_and_flush(St, SerializeLogEntry(LogEntry(key, value))),
                              key, value))
    /\ nops' = nops + 1
    /\ UNCHANGED <<vals, thr, wlog, conn, lk>>

RemoveMergeStart(w, key) ==
    IF key \in DOMAIN index
    THEN MergeStart(w, MapDel(index, key), index[key].v_size + 1)
    ELSE EmptyMap

Remove(key) ==
    /\ status = "open" /\ nops < MaxOps
    /\ (key \in DOMAIN index
          /\ NeedsRollover(St, Len(SerializeLogEntry(LogEntry(key, <<DELETED_CODE>>)))))
           => active_file_id < MaxFileId
    /\ Returned("remove", key, << >>, remove(St, key),
                RemoveMergeStart(write_and_flush(St,
                                     SerializeLogEntry(LogEntry(key, <<DELETED_CODE>>))),
                                 key))
    /\ nops' = nops + 1
    /\ UNCHANGED <<vals, thr, wlog, conn, lk>>

Get(key) ==
    /\ status = "open"
    /\ \E res \in get(St, key) :
         /\ After(IF res = Panic THEN "panic" ELSE "ok", St)
         /\ last' = Call("get", key, << >>, res, EmptyMap)
         /\ hist' = Record("get", key, res)
    /\ UNCHANGED <<vals, kv, nops, thr, wlog, conn, lk>>

Flush ==
    /\ status = "open" /\ nops < MaxOps
    /\ After("ok", flush(St))
    /\ last' = Call("flush", << >>, << >>, Ok, EmptyMap)
    /\ hist' = Record("flush", << >>, Ok)
    /\ nops' = nops + 1
    /\ UNCHANGED <<vals, kv, thr, wlog, conn, lk>>

\* merge called directly (it is pub)
Merge ==
    /\ status = "open" /\ nops < MaxOps
    /\ Returned("merge", << >>, << >>, merge(St), Gets(St))
    /\ nops' = nops + 1
    /\ UNCHANGED <<vals, thr, wlog, conn, lk>>

\* the engine is dropped
Close ==
    /\ status = "open" /\ nops < MaxOps
    /\ After("panic", St)
    /\ last' = Call("close", << >>, << >>, Ok, EmptyMap)
    /\ hist' = Record("close", << >>, Ok)
    /\ nops' = nops + 1
    /\ UNCHANGED <<vals, kv, thr, wlog, conn, lk>>

\* BitcaskEngine::open on the directory as it is
Opened(r) ==
    /\ IF r.tag = "ok"
       THEN After("ok", r.s)
       ELSE UNCHANGED <<dir, inode, index, active_file_id, writer, file_reader,
                        useless_value_bytes, status>>
    /\ last' = Call("open", << >>, << >>, ResultOf(r.tag), EmptyMap)
    /\ hist' = Record("open", << >>, ResultOf(r.tag))

Open ==
    /\ status = "closed" /\ last.op # "open"
    /\ Opened(open([dir |-> dir, inode |-> inode]))
    /\ UNCHANGED <<vals, kv, nops, thr, wlog, conn, lk>>

\* set returns the error of its I/O call p
SetFails(key, value, p) ==
    /\ status = "open" /\ nops < MaxOps
    /\ SetReaches(St, key, value, p)
    /\ NeedsRollover(St, Len(SerializeLogEntry(LogEntry(key, value))))
           => active_file_id < MaxFileId
    /\ Returned("set", key, value,
                [tag |-> "err", s |-> set_failing(St, key, value, p)], EmptyMap)
    /\ nops' = nops + 1
    /\ UNCHANGED <<vals, thr, wlog, conn, lk>>

\* the engine dropped with the bytes part after what its writer wrote
TornAppend(s1, part) ==
    [Dropped(s1) EXCEPT !.inode = [@ EXCEPT ![s1.writer.ino] = @ \o part]]

\* the process dies in the write of set(key, value) (io.rs line 26): the
\* bytes written before are in the file, and of the record its first cut
\* (the histories explored have one such crash)
SetTorn(key, value, cut) ==
    /\ status = "open" /\ nops < MaxOps /\ "torn" \notin hist.ops
    /\ writer.ino \in Range(dir)
    /\ NeedsRollover(St, Len(SerializeLogEntry(LogEntry(key, value))))
           => active_file_id < MaxFileId
    /\ Install(TornAppend(IF NeedsRollover(St, Len(SerializeLogEntry(LogEntry(key, value))))
                          THEN Rollover(St) ELSE St,
                          SubSeq(SerializeLogEntry(LogEntry(key, value)), 1, cut)))
    /\ status' = "closed"
    /\ last' = Call("torn", key, SubSeq(SerializeLogEntry(LogEntry(key, value)), 1, cut),
                    Ok, EmptyMap)
    /\ hist' = Record("torn", key, Ok)
    /\ nops' = nops + 1
    /\ UNCHANGED <<vals, kv, thr, wlog, conn, lk>>

\* the engine where the process dies inside merge: after the temp files were
\* flushed (line 252), after the first old segment was deleted (line 259),
\* after all of them were (line 260), after the first rename (line 267)
MergeDiesAt(sc, stage) ==
    CASE stage = "flushed" -> sc.s
      [] stage = "removed_one" ->
           MergeRemoveOld([tag |-> "ok", s |-> sc.s], SubSeq(sc.old, 1, 1)).s
      [] stage = "removed" -> MergeRemoveOld([tag |-> "ok", s |-> sc.s], sc.old).s
      [] OTHER ->
           MergeRename(MergeRemoveOld([tag |-> "ok", s |-> sc.s], sc.old).s, 0, "log").s

\* the process is killed inside merge; what its active writer still buffers
\* is lost
MergeDies(stage) ==
    /\ status = "open" /\ nops < MaxOps
    /\ MergeScan(St).tag = "ok"
    /\ stage = "removed_one" => Len(MergeScan(St).old) >= 1
    /\ Install(Dropped([MergeDiesAt(MergeScan(St), stage)
                            EXCEPT !.writer = [@ EXCEPT !.buf = << >>]]))
    /\ status' = "closed"
    /\ last' = Call("crash", << >>, << >>, Ok, EmptyMap)
    /\ hist' = Record("crash", << >>, Ok)
    /\ nops' = nops + 1
    /\ UNCHANGED <<vals, kv, thr, wlog, conn, lk>>

\* no client is connected
\* buffer is Connection.buffer, wire the bytes the client has written that
\* read_buf has not taken yet, out the frames written to the stream, task the
\* state of the handler's task; reqs (history) are the requests handed to
\* deal with the results of their engine calls, sent counts the client's writes
NoConnection == [buffer |-> << >>, wire |-> << >>, eof |-> FALSE, out |-> << >>,
                 reqs |-> << >>, sent |-> 0, task |-> "none"]

NoHistory ==
    [ops |-> {}, clean |-> TRUE, wasClean |-> TRUE, afterFlush |-> FALSE, removed |-> {},
     sinceTorn |-> {}]

\* the threads of the concurrent callers, and a thread that is in no call
Threads == {"t1", "t2"}
Idle == [pc |-> "idle", op |-> "none", key |-> << >>, val |-> << >>,
         file_id |-> 0, pos |-> 0, old |-> -1, ids |-> << >>, merged |-> 0,
         i |-> 0, res |-> None, scanned |-> FALSE, overlapped |-> FALSE]

\* a thread in no call: prog are the lock operations of its call, i the
\* next one, held the locks it holds, ks and rs the shards of the key
\* directory and of the reader map its call touches
NoLocks == [t \in Threads |-> [prog |-> << >>, i |-> 1, held |-> {}, ks |-> 0, rs |-> 0]]

\* the engine opened on an empty directory
Fresh == open([dir |-> EmptyMap, inode |-> EmptyMap]).s

Init ==
    /\ Install0(Fresh)
    /\ status = "open"
    /\ vals = Values
    /\ kv = EmptyMap
    /\ last = Call("open", << >>, << >>, Ok, EmptyMap)
    /\ hist = NoHistory
    /\ nops = 0
    /\ thr = [t \in Threads |-> Idle]
    /\ wlog = << >>
    /\ conn = NoConnection
    /\ lk = NoLocks

Next ==
    \/ \E k \in Keys, v \in vals : Set(k, v)
    \/ \E k \in Keys : Remove(k)
    \/ \E k \in Keys : Get(k)
    \/ Flush
    \/ Merge
    \/ Close
    \/ Open

Spec == Init /\ [][Next]_vars

\* the same engine, with callers that also set a value one byte longer than
\* the buffers get and read_log_entry read into
LongVal == [i \in 1..(STACK_BUF_LEN + 1) |-> 120]

InitLong ==
    /\ Install0(Fresh)
    /\ status = "open"
    /\ vals = {Val1, LongVal}
    /\ kv = EmptyMap
    /\ last = Call("open", << >>, << >>, Ok, EmptyMap)
    /\ hist = NoHistory
    /\ nops = 0
    /\ thr = [t \in Threads |-> Idle]
    /\ wlog = << >>
    /\ conn = NoConnection
    /\ lk = NoLocks

SpecLong == InitLong /\ [][Next]_vars

\* the same engine with three keys and a value that lets a segment hold one
\* record of set: a merge of two live records emits two merged segments
InitSeg ==
    /\ Install0(Fresh)
    /\ status = "open"
    /\ vals = {<<49, 49, 49, 49>>}
    /\ kv = EmptyMap
    /\ last = Call("open", << >>, << >>, Ok, EmptyMap)
    /\ hist = NoHistory
    /\ nops = 0
    /\ thr = [t \in Threads |-> Idle]
    /\ wlog = << >>
    /\ conn = NoConnection
    /\ lk = NoLocks

NextSeg ==
    \/ \E k \in Keys \cup {<<99>>}, v \in vals : Set(k, v)
    \/ \E k \in Keys \cup {<<99>>} : Remove(k)
    \/ \E k \in Keys \cup {<<99>>} : Get(k)
    \/ Flush
    \/ Merge
    \/ Close
    \/ Open

SpecSeg == InitSeg /\ [][NextSeg]_vars

\* the same engine on a file system whose calls can fail
NextFault ==
    \/ Next
    \/ \E k \in Keys, v \in vals, p \in FaultPoints : SetFails(k, v, p)
    \/ \E k \in Keys, v \in vals :
         \E cut \in 1..(Len(SerializeLogEntry(LogEntry(k, v))) - 1) : SetTorn(k, v, cut)

\* the callers set one value
InitFault ==
    /\ Install0(Fresh)
    /\ status = "open"
    /\ vals = {Val1}
    /\ kv = EmptyMap
    /\ last = Call("open", << >>, << >>, Ok, EmptyMap)
    /\ hist = NoHistory
    /\ nops = 0
    /\ thr = [t \in Threads |-> Idle]
    /\ wlog = << >>
    /\ conn = NoConnection
    /\ lk = NoLocks

SpecFault == InitFault /\ [][NextFault]_vars

\* the engine with one record a segment, and a process that can die in merge
NextCrash ==
    \/ NextSeg
    \/ \E stage \in {"flushed", "removed_one", "removed", "renamed_log"} :
           MergeDies(stage)

SpecCrash == InitSeg /\ [][NextCrash]_vars

(***************************************************************************)
(* Concurrent callers.  Every thread makes one call on the shared engine;  *)
(* a step of a thread is one operation on a shared object: the critical    *)
(* section of the writer mutex, one DashMap operation, one atomic          *)
(* operation, one file system call.  (merge's scan of the old segments is  *)
(* taken as one step.)  get holds the guard of its key-directory entry     *)
(* from its lookup to its return; an insert or remove of that key waits.   *)
(***************************************************************************)
\* the engine after set(b,""), set(a,"1"), set(b,""), set(b,"1") on an empty
\* directory: segment 0 is sealed and holds a's live record, segment 1 is
\* active and holds b's, every record is in its file
RECURSIVE SetAll(_, _)
SetAll(s, sets) ==
    IF sets = << >> THEN s
    ELSE SetAll(set(s, Head(sets)[1], Head(sets)[2]).s, Tail(sets))

Prepared ==
    SetAll(Fresh, << <<KeyB, << >> >>, <<KeyA, Val1>>, <<KeyB, << >> >>, <<KeyB, Val1>> >>)

MergePcs == {"m_evict", "m_unlink", "m_rename_log", "m_rename_hint", "m_install", "m_load"}

\* the key's entry is held by the guard of another thread's get
Guarded(t, key) ==
    \E u \in Threads \ {t} : thr[u].pc = "get_read" /\ thr[u].key = key

\* some other thread is inside merge, past its scan
MergeInProgress(t) == \E u \in Threads \ {t} : thr[u].pc \in MergePcs

Goto(t, pc) == thr' = [thr EXCEPT ![t].pc = pc]

\* a step inside a call leaves the history of the sequential caller alone
NoCall == UNCHANGED <<status, vals, kv, last, hist, nops, conn, lk>>

\* thread t returns res
Return(t, res) ==
    thr' = [thr EXCEPT ![t].pc = "done", ![t].res = res,
                       ![t].overlapped = MergeInProgress(t)]

Begin(t, op, key, val) ==
    /\ NoCall
    /\ thr[t].pc = "idle"
    /\ thr' = [thr EXCEPT ![t] =
                  [Idle EXCEPT !.op = op, !.key = key, !.val = val,
                               !.pc = CASE op = "set" -> "set_write"
                                        [] op = "remove" -> "rm_check"
                                        [] op = "get" -> "get_index"
                                        [] OTHER -> "m_scan"]]
    /\ UNCHANGED <<dir, inode, index, active_file_id, writer, file_reader,
                   useless_value_bytes, wlog>>

\* line 55 / line 103: write_and_flush, under the writer mutex
Wrote(t, value, w) ==
    /\ Install(Gc(w.s))
    /\ thr' = [thr EXCEPT ![t].file_id = w.file_id, ![t].pos = w.pos,
                          ![t].pc = IF thr[t].pc = "set_write"
                                    THEN "set_insert" ELSE "rm_remove"]
    /\ wlog' = Append(wlog, [key |-> thr[t].key, value |-> value,
                             file_id |-> w.file_id, pos |-> w.pos])

WriteValue(t, value) ==
    /\ NeedsRollover(St, Len(SerializeLogEntry(LogEntry(thr[t].key, value))))
           => active_file_id < MaxFileId
    /\ Wrote(t, value, write_and_flush(St, SerializeLogEntry(LogEntry(thr[t].key, value))))

Write(t) ==
    /\ NoCall
    /\ thr[t].pc \in {"set_write", "rm_write"}
    /\ WriteValue(t, IF thr[t].pc = "set_write" THEN thr[t].val ELSE <<DELETED_CODE>>)

\* a faulty insert: the segment id is read from active_file_id again at the
\* insert
SetInsertReadsActive(t) ==
    /\ NoCall
    /\ thr[t].pc = "set_insert"
    /\ ~Guarded(t, thr[t].key)
    /\ index' = MapPut(index, thr[t].key,
                       IndexEntry(active_file_id, writer.pos, Len(thr[t].val)))
    /\ IF thr[t].key \in DOMAIN index
       THEN thr' = [thr EXCEPT ![t].old = index[thr[t].key].v_size, ![t].pc = "account"]
       ELSE Return(t, Ok)
    /\ UNCHANGED <<dir, inode, active_file_id, writer, file_reader,
                   useless_value_bytes, wlog>>

\* line 62: self.index.insert(key, index_entry)
SetInsert(t) ==
    /\ NoCall
    /\ thr[t].pc = "set_insert"
    /\ ~Guarded(t, thr[t].key)
    /\ index' = MapPut(index, thr[t].key,
                       IndexEntry(thr[t].file_id, thr[t].pos, Len(thr[t].val)))
    /\ IF thr[t].key \in DOMAIN index
       THEN thr' = [thr EXCEPT ![t].old = index[thr[t].key].v_size, ![t].pc = "account"]
       ELSE Return(t, Ok)
    /\ UNCHANGED <<dir, inode, active_file_id, writer, file_reader,
                   useless_value_bytes, wlog>>

\* line 94: self.index.contains_key(&key)
RmCheck(t) ==
    /\ NoCall
    /\ thr[t].pc = "rm_check"
    /\ IF thr[t].key \in DOMAIN index THEN Goto(t, "rm_write") ELSE Return(t, KeyNotFound)
    /\ UNCHANGED <<dir, inode, index, active_file_id, writer, file_reader,
                   useless_value_bytes, wlog>>

\* line 104: self.index.remove(&key)
RmRemove(t) ==
    /\ NoCall
    /\ thr[t].pc = "rm_remove"
    /\ ~Guarded(t, thr[t].key)
    /\ index' = MapDel(index, thr[t].key)
    /\ IF thr[t].key \in DOMAIN index
       THEN thr' = [thr EXCEPT ![t].old = index[thr[t].key].v_size + 1,
                               ![t].pc = "account"]
       ELSE Return(t, Ok)
    /\ UNCHANGED <<dir, inode, active_file_id, writer, file_reader,
                   useless_value_bytes, wlog>>

\* lines 63-64 / 105-106: useless_value_bytes.fetch_add
Account_(t) ==
    /\ NoCall
    /\ thr[t].pc = "account"
    /\ useless_value_bytes' = useless_value_bytes + thr[t].old
    /\ Goto(t, "threshold")
    /\ UNCHANGED <<dir, inode, index, active_file_id, writer, file_reader, wlog>>

\* lines 65-67 / 107-109: the load and the comparison with the threshold
Threshold(t) ==
    /\ NoCall
    /\ thr[t].pc = "threshold"
    /\ IF ExceedsThreshold(useless_value_bytes) THEN Goto(t, "m_scan") ELSE Return(t, Ok)
    /\ UNCHANGED <<dir, inode, index, active_file_id, writer, file_reader,
                   useless_value_bytes, wlog>>

\* line 74: self.index.get(&key)
GetIndex(t) ==
    /\ NoCall
    /\ thr[t].pc = "get_index"
    /\ IF thr[t].key \in DOMAIN index
       THEN thr' = [thr EXCEPT ![t].file_id = index[thr[t].key].file_id,
                               ![t].pos = index[thr[t].key].v_pos,
                               ![t].old = index[thr[t].key].v_size,
                               ![t].pc = "get_read"]
       ELSE Return(t, None)
    /\ UNCHANGED <<dir, inode, index, active_file_id, writer, file_reader,
                   useless_value_bytes, wlog>>

\* lines 75-85: the reader's lookup, seek and read, with the entry held
GetRead(t) ==
    /\ NoCall
    /\ thr[t].pc = "get_read"
    /\ LET held == [x \in {thr[t].key} |->
                       IndexEntry(thr[t].file_id, thr[t].pos, thr[t].old)]
       IN  \E res \in get([St EXCEPT !.index = held], thr[t].key) : Return(t, res)
    /\ UNCHANGED <<dir, inode, index, active_file_id, writer, file_reader,
                   useless_value_bytes, wlog>>

\* lines 208-252
MScanned(t, sc) ==
    /\ Install(Gc(sc.s))
    /\ IF sc.tag # "ok" THEN Return(t, ResultOf(sc.tag))
       ELSE thr' = [thr EXCEPT ![t].ids = sc.old, ![t].merged = sc.merged,
                               ![t].scanned = TRUE,
                               ![t].i = IF sc.old = << >> THEN 0 ELSE 1,
                               ![t].pc = IF sc.old = << >> THEN "m_rename_log"
                                         ELSE "m_evict"]

MScan(t) ==
    /\ NoCall
    /\ thr[t].pc = "m_scan"
    /\ MScanned(t, MergeScan(St))
    /\ UNCHANGED wlog

\* line 257
MEvict(t) ==
    /\ NoCall
    /\ thr[t].pc = "m_evict"
    /\ Install(Gc(MergeEvictReader(St, thr[t].ids[thr[t].i])))
    /\ Goto(t, "m_unlink")
    /\ UNCHANGED wlog

\* lines 258-259
MUnlink(t) ==
    /\ NoCall
    /\ thr[t].pc = "m_unlink"
    /\ LET r == MergeRemoveFile(St, thr[t].ids[thr[t].i])
       IN  /\ Install(Gc(r.s))
           /\ IF r.tag # "ok" THEN Return(t, Err)
              ELSE IF thr[t].i < Len(thr[t].ids)
              THEN thr' = [thr EXCEPT ![t].i = thr[t].i + 1, ![t].pc = "m_evict"]
              ELSE thr' = [thr EXCEPT ![t].i = 0, ![t].pc = "m_rename_log"]
    /\ UNCHANGED wlog

\* lines 265-270
MRename(t) ==
    /\ NoCall
    /\ thr[t].pc \in {"m_rename_log", "m_rename_hint"}
    /\ LET r == MergeRename(St, thr[t].i,
                            IF thr[t].pc = "m_rename_log" THEN "log" ELSE "hint")
       IN  /\ Install(Gc(r.s))
           /\ IF r.tag # "ok" THEN Return(t, Err)
              ELSE Goto(t, IF thr[t].pc = "m_rename_log" THEN "m_rename_hint"
                           ELSE "m_install")
    /\ UNCHANGED wlog

\* lines 273-274
MInstall(t) ==
    /\ NoCall
    /\ thr[t].pc = "m_install"
    /\ LET r == MergeInstallReader(St, thr[t].i)
       IN  /\ Install(Gc(r.s))
           /\ IF r.tag # "ok" THEN Return(t, Err) ELSE Goto(t, "m_load")
    /\ UNCHANGED wlog

\* lines 277-278
MLoaded(t, r) ==
    /\ \A k \in DOMAIN r.s.index :
          (k \notin DOMAIN index \/ r.s.index[k] # index[k]) => ~Guarded(t, k)
    /\ Install(Gc(r.s))
    /\ IF r.tag # "ok" THEN Return(t, ResultOf(r.tag))
       ELSE IF thr[t].i < thr[t].merged
       THEN thr' = [thr EXCEPT ![t].i = thr[t].i + 1, ![t].pc = "m_rename_log"]
       ELSE Return(t, Ok)

MLoad(t) ==
    /\ NoCall
    /\ thr[t].pc = "m_load"
    /\ MLoaded(t, MergeLoadHint(St, thr[t].i))
    /\ UNCHANGED wlog

InitConc ==
    /\ Install0(Prepared)
    /\ status = "open"
    /\ vals = {Val1, Val2}
    /\ kv = EmptyMap
    /\ last = Call("open", << >>, << >>, Ok, EmptyMap)
    /\ hist = NoHistory
    /\ nops = 0
    /\ thr = [t \in Threads |-> Idle]
    /\ wlog = << >>
    /\ conn = NoConnection
    /\ lk = NoLocks

NextConc ==
    \/ \E t \in Threads, k \in Keys, v \in vals : Begin(t, "set", k, v)
    \/ \E t \in Threads, k \in Keys : Begin(t, "remove", k, << >>)
    \/ \E t \in Threads, k \in Keys : Begin(t, "get", k, << >>)
    \/ \E t \in Threads : Begin(t, "merge", << >>, << >>)
    \/ \E t \in Threads : Write(t)
    \/ \E t \in Threads : SetInsert(t)
    \/ \E t \in Threads : RmCheck(t)
    \/ \E t \in Threads : RmRemove(t)
    \/ \E t \in Threads : Account_(t)
    \/ \E t \in Threads : Threshold(t)
    \/ \E t \in Threads : GetIndex(t)
    \/ \E t \in Threads : GetRead(t)
    \/ \E t \in Threads : MScan(t)
    \/ \E t \in Threads : MEvict(t)
    \/ \E t \in Threads : MUnlink(t)
    \/ \E t \in Threads : MRename(t)
    \/ \E t \in Threads : MInstall(t)
    \/ \E t \in Threads : MLoad(t)

SpecConc == InitConc /\ [][NextConc]_vars

(***************************************************************************)
(* protocol.rs: frames `%<code><payload>%`.                                *)
(***************************************************************************)
PERCENT == 37
HASH == 35

Frame(code, key, value) == [code |-> code, key |-> key, value |-> value]
FrameSet(key, value) == Frame(0, key, value)
FrameGet(key) == Frame(1, key, << >>)
FrameRemove(key) == Frame(2, key, << >>)
FrameValue(value) == Frame(3, << >>, value)
FrameError(msg) == Frame(4, << >>, msg)
FrameNull == Frame(5, << >>, << >>)

\* Frame::write
FrameWrite(fr) ==
    <<PERCENT, fr.code>>
      \o (CASE fr.code = 0 -> fr.key \o <<HASH>> \o fr.value
            [] fr.code \in {1, 2} -> fr.key
            [] fr.code \in {3, 4} -> fr.value
            [] OTHER -> << >>)
      \o <<PERCENT>>

\* get_until_target_char with the cursor before byte pos of buf: the bytes up
\* to the first byte equal to char, and the cursor after that byte
get_until_target_char(buf, pos, char) ==
    LET at == {i \in pos..Len(buf) : buf[i] = char} IN
    IF at = {} THEN [some |-> FALSE, pos |-> pos, bytes |-> << >>]
    ELSE LET i == CHOOSE j \in at : \A k \in at : j <= k
         IN  [some |-> TRUE, pos |-> i + 1, bytes |-> SubSeq(buf, pos, i - 1)]

\* Frame::check: "ok" with the length of the first frame, "incomplete", "err"
FrameCheck(buf) ==
    IF Len(buf) = 0 THEN [tag |-> "incomplete", len |-> 0]
    ELSE IF buf[1] # PERCENT THEN [tag |-> "err", len |-> 0]
    ELSE IF get_until_target_char(buf, 2, PERCENT).some
    THEN [tag |-> "ok", len |-> get_until_target_char(buf, 2, PERCENT).pos - 1]
    ELSE [tag |-> "incomplete", len |-> 0]

\* Frame::parse of code 0: the key up to '#', the value up to '%', each
\* searched in all of the buffer and unwrapped
FrameParseSet(buf, k) ==
    IF ~k.some THEN [tag |-> "panic", frame |-> FrameNull]
    ELSE IF ~IsUtf8(k.bytes) THEN [tag |-> "err", frame |-> FrameNull]
    ELSE IF ~get_until_target_char(buf, k.pos, PERCENT).some
    THEN [tag |-> "panic", frame |-> FrameNull]
    ELSE IF ~IsUtf8(get_until_target_char(buf, k.pos, PERCENT).bytes)
    THEN [tag |-> "err", frame |-> FrameNull]
    ELSE [tag |-> "ok",
          frame |-> FrameSet(k.bytes, get_until_target_char(buf, k.pos, PERCENT).bytes)]

\* Frame::parse of the codes 1 to 5: one payload up to '%'
FrameParseOne(code, p) ==
    IF ~p.some THEN [tag |-> "panic", frame |-> FrameNull]
    ELSE IF code # 5 /\ ~IsUtf8(p.bytes) THEN [tag |-> "err", frame |-> FrameNull]
    ELSE [tag |-> "ok",
          frame |-> CASE code = 1 -> FrameGet(p.bytes)
                      [] code = 2 -> FrameRemove(p.bytes)
                      [] code = 3 -> FrameValue(p.bytes)
                      [] code = 4 -> FrameError(p.bytes)
                      [] OTHER -> FrameNull]

\* Frame::parse
FrameParse(buf) ==
    IF Len(buf) < 2 THEN [tag |-> "err", frame |-> FrameNull]
    ELSE IF buf[2] = 0 THEN FrameParseSet(buf, get_until_target_char(buf, 3, HASH))
    ELSE IF buf[2] \in 1..5
    THEN FrameParseOne(buf[2], get_until_target_char(buf, 3, PERCENT))
    ELSE [tag |-> "err", frame |-> FrameNull]

(***************************************************************************)
(* connection.rs and server.rs: one connection and its handler.            *)
(***************************************************************************)
\* Connection::parse_frame: "ok" with a frame and the buffer advanced by the
\* length check found, "none" (no complete frame), "err", "panic"
parse_frame(buffer) ==
    IF FrameCheck(buffer).tag = "incomplete"
    THEN [tag |-> "none", frame |-> FrameNull, buffer |-> buffer]
    ELSE IF FrameCheck(buffer).tag = "err"
    THEN [tag |-> "err", frame |-> FrameNull, buffer |-> buffer]
    ELSE [tag |-> FrameParse(buffer).tag, frame |-> FrameParse(buffer).frame,
          buffer |-> IF FrameParse(buffer).tag = "ok"
                     THEN SubSeq(buffer, FrameCheck(buffer).len + 1, Len(buffer))
                     ELSE buffer]

\* err.to_string() for the errors of the engine ("key <key> not found",
\* "inner error: get file reader"; "io" stands for the text of an I/O or
\* UTF-8 error)
ErrorText(res, key) ==
    CASE res = KeyNotFound ->
           <<107, 101, 121, 32>> \o key \o <<32, 110, 111, 116, 32, 102, 111, 117, 110, 100>>
      [] res = InnerErr ->
           <<105, 110, 110, 101, 114, 32, 101, 114, 114, 111, 114, 58, 32, 103, 101, 116,
             32, 102, 105, 108, 101, 32, 114, 101, 97, 100, 101, 114>>
      [] OTHER -> <<105, 111>>

\* Handler::deal: the response to a request whose engine call returned res
Response(key, res) ==
    CASE res.tag = "Some" -> FrameValue(res.val)
      [] res \in {Ok, None} -> FrameNull
      [] OTHER -> FrameError(ErrorText(res, key))

\* the connection after deal has handled frame fr with engine result res: a
\* panic of the engine ends the task before write_frame
Dealt(c, fr, res) ==
    [c EXCEPT !.reqs = Append(@, [frame |-> fr, res |-> res]),
              !.out = IF res = Panic THEN @
                      ELSE Append(@, FrameWrite(Response(fr.key, res))),
              !.task = IF res = Panic THEN "panicked" ELSE @]

\* the bytes a client writes: the frames of its set, get and remove, and
\* bytes no client of this repository writes (a response code, a Set without
\* '#', a frame cut short, a byte that starts no frame)
Requests ==
    {FrameWrite(FrameSet(k, v)) : k \in Keys, v \in vals}
      \cup {FrameWrite(FrameGet(k)) : k \in Keys}
      \cup {FrameWrite(FrameRemove(k)) : k \in Keys}
      \cup {FrameWrite(FrameNull), <<PERCENT, 0, 97, PERCENT>>, <<PERCENT, 1, 97>>, <<97>>}

MaxRequests == 3

\* read_buf takes all the bytes that have arrived, or the first ReadChunk
ReadChunk == 2

ClientWrites(bytes) ==
    /\ conn.task = "running" /\ ~conn.eof /\ conn.sent < MaxRequests
    /\ conn' = [conn EXCEPT !.wire = @ \o bytes, !.sent = @ + 1]
    /\ UNCHANGED <<dir, inode, index, active_file_id, writer, file_reader,
                   useless_value_bytes, status, vals, kv, last, hist, nops, thr, wlog, lk>>

ClientCloses ==
    /\ conn.task = "running" /\ ~conn.eof
    /\ conn' = [conn EXCEPT !.eof = TRUE]
    /\ UNCHANGED <<dir, inode, index, active_file_id, writer, file_reader,
                   useless_value_bytes, status, vals, kv, last, hist, nops, thr, wlog, lk>>

\* Connection::read_frame, line 36: no complete frame is buffered, read_buf
\* takes n of the bytes that have arrived; at the end of the stream it
\* returns 0, an error when the buffer holds a part of a frame
ReadBuf(n) ==
    /\ conn.task = "running"
    /\ parse_frame(conn.buffer).tag = "none"
    /\ IF conn.wire # << >>
       THEN /\ n \in 1..Len(conn.wire)
            /\ conn' = [conn EXCEPT !.buffer = @ \o SubSeq(conn.wire, 1, n),
                                    !.wire = SubSeq(@, n + 1, Len(@))]
       ELSE /\ conn.eof /\ conn.buffer # << >> /\ n = 0
            /\ conn' = [conn EXCEPT !.task = "err"]
    /\ UNCHANGED <<dir, inode, index, active_file_id, writer, file_reader,
                   useless_value_bytes, status, vals, kv, last, hist, nops, thr, wlog, lk>>

\* Handler::handle: read_frame fails or panics, or deal rejects the frame
HandleFails ==
    /\ conn.task = "running"
    /\ \/ parse_frame(conn.buffer).tag \in {"err", "panic"}
       \/ parse_frame(conn.buffer).tag = "ok"
            /\ parse_frame(conn.buffer).frame.code \notin {0, 1, 2}
    /\ conn' = [conn EXCEPT !.buffer = parse_frame(conn.buffer).buffer,
                            !.task = IF parse_frame(conn.buffer).tag = "panic"
                                     THEN "panicked" ELSE "err"]
    /\ UNCHANGED <<dir, inode, index, active_file_id, writer, file_reader,
                   useless_value_bytes, status, vals, kv, last, hist, nops, thr, wlog, lk>>

\* Handler::handle: read_frame returns a request, deal calls the engine and
\* writes the response
DealSet(p) ==
    /\ nops < MaxOps
    /\ NeedsRollover(St, Len(SerializeLogEntry(LogEntry(p.frame.key, p.frame.value))))
           => active_file_id < MaxFileId
    /\ Returned("set", p.frame.key, p.frame.value,
                set(St, p.frame.key, p.frame.value), EmptyMap)
    /\ nops' = nops + 1

DealRemove(p) ==
    /\ nops < MaxOps
    /\ (p.frame.key \in DOMAIN index
          /\ NeedsRollover(St, Len(SerializeLogEntry(LogEntry(p.frame.key, <<DELETED_CODE>>)))))
           => active_file_id < MaxFileId
    /\ Returned("remove", p.frame.key, << >>, remove(St, p.frame.key), EmptyMap)
    /\ nops' = nops + 1

DealGet(p) ==
    /\ \E res \in get(St, p.frame.key) :
         /\ After(IF res = Panic THEN "panic" ELSE "ok", St)
         /\ last' = Call("get", p.frame.key, << >>, res, EmptyMap)
         /\ hist' = Record("get", p.frame.key, res)
    /\ UNCHANGED <<kv, nops>>

Deal(p) ==
    /\ CASE p.frame.code = 0 -> DealSet(p)
         [] p.frame.code = 2 -> DealRemove(p)
         [] OTHER -> DealGet(p)
    /\ conn' = Dealt([conn EXCEPT !.buffer = p.buffer], p.frame, last'.res)
    /\ UNCHANGED <<vals, thr, wlog, lk>>

Serve ==
    /\ conn.task = "running" /\ status = "open"
    /\ parse_frame(conn.buffer).tag = "ok"
    /\ parse_frame(conn.buffer).frame.code \in {0, 1, 2}
    /\ Deal(parse_frame(conn.buffer))

\* Server::run has accepted one connection and spawned its handler
InitServer ==
    /\ Install0(Fresh)
    /\ status = "open"
    /\ vals = {Val1}
    /\ kv = EmptyMap
    /\ last = Call("open", << >>, << >>, Ok, EmptyMap)
    /\ hist = NoHistory
    /\ nops = 0
    /\ thr = [t \in Threads |-> Idle]
    /\ wlog = << >>
    /\ conn = [NoConnection EXCEPT !.task = "running"]
    /\ lk = NoLocks

NextServer ==
    \/ \E bytes \in Requests : ClientWrites(bytes)
    \/ ClientCloses
    \/ \E n \in {0, ReadChunk, Len(conn.wire)} : ReadBuf(n)
    \/ HandleFails
    \/ Serve

SpecServer == InitServer /\ [][NextServer]_vars

(***************************************************************************)
(* The locks of the engine: the mutex of the active writer, the shards of  *)
(* the key directory (index) and of the reader map (file_reader), both     *)
(* DashMaps whose shards are read-write locks.  A call is the sequence of  *)
(* its lock operations; what it does to the data is left out.              *)
(***************************************************************************)
Shards == {0, 1}

Acq(lock, mode) == [do |-> "acq", lock |-> lock, mode |-> mode]
Rel(lock) == [do |-> "rel", lock |-> lock, mode |-> "-"]

\* a faulty get: it takes the writer mutex, to flush the writer, while it
\* holds the reader
GetLocksFlushing ==
    {<<Acq("index", "r"), Rel("index")>>,
     <<Acq("index", "r"), Acq("file_reader", "w"), Acq("writer", "w"), Rel("writer"),
       Rel("file_reader"), Rel("index")>>}

\* get, lines 74-89: index.get (the guard lives to the return), then
\* file_reader.get_mut; without an entry the first guard is dropped at once
GetLocks ==
    {<<Acq("index", "r"), Rel("index")>>,
     <<Acq("index", "r"), Acq("file_reader", "w"), Rel("file_reader"), Rel("index")>>}

\* write_and_flush, lines 129-151: the mutex, and file_reader.insert under it
\* when the segment is rolled over
WriteLocks ==
    {<<Acq("writer", "w"), Rel("writer")>>,
     <<Acq("writer", "w"), Acq("file_reader", "w"), Rel("file_reader"), Rel("writer")>>}

\* merge, lines 218-278: index.get for a record of the scan (the guard lives
\* through the copy into the temp files), file_reader.remove,
\* file_reader.insert, index.insert of load_from_hint_file
MergeLocks ==
    {<<Acq("index", "r"), Rel("index"), Acq("file_reader", "w"), Rel("file_reader"),
       Acq("file_reader", "w"), Rel("file_reader"), Acq("index", "w"), Rel("index")>>}

\* set, lines 55-68: write_and_flush, index.insert, and merge when the
\* threshold is passed
SetLocks ==
    {w \o <<Acq("index", "w"), Rel("index")>> \o m :
        w \in WriteLocks, m \in {<< >>} \cup MergeLocks}

\* remove, lines 94-108: index.contains_key, write_and_flush, index.remove,
\* and merge when the threshold is passed
RemoveLocks ==
    {<<Acq("index", "r"), Rel("index")>>}
      \cup {<<Acq("index", "r"), Rel("index")>> \o w \o <<Acq("index", "w"), Rel("index")>> \o m :
               w \in WriteLocks, m \in {<< >>} \cup MergeLocks}

LockPrograms == GetLocks \cup SetLocks \cup RemoveLocks

\* the lock the operation op of thread t is about
LockOf(t, op) ==
    <<op.lock, CASE op.lock = "index" -> lk[t].ks
                 [] op.lock = "file_reader" -> lk[t].rs
                 [] OTHER -> 0>>

InCall(t) == lk[t].i <= Len(lk[t].prog)
NextOp(t) == lk[t].prog[lk[t].i]

\* thread t is about to acquire a lock that thread u holds, one of them for
\* writing
WaitsFor(t, u) ==
    /\ InCall(t) /\ NextOp(t).do = "acq"
    /\ \E h \in lk[u].held :
          /\ h.lock = LockOf(t, NextOp(t))
          /\ (h.mode = "w" \/ NextOp(t).mode = "w")

LockBegin(t, prog, ks, rs) ==
    /\ ~InCall(t)
    /\ lk' = [lk EXCEPT ![t] = [prog |-> prog, i |-> 1, held |-> {}, ks |-> ks, rs |-> rs]]
    /\ UNCHANGED <<dir, inode, index, active_file_id, writer, file_reader,
                   useless_value_bytes, status, vals, kv, last, hist, nops, thr,
                   wlog, conn>>

LockStep(t) ==
    /\ InCall(t)
    /\ IF NextOp(t).do = "acq"
       THEN /\ \A u \in Threads \ {t} : ~WaitsFor(t, u)
            /\ lk' = [lk EXCEPT ![t].i = @ + 1,
                                ![t].held = @ \cup {[lock |-> LockOf(t, NextOp(t)),
                                                     mode |-> NextOp(t).mode]}]
       ELSE lk' = [lk EXCEPT ![t].i = @ + 1,
                             ![t].held = {h \in @ : h.lock # LockOf(t, NextOp(t))}]
    /\ UNCHANGED <<dir, inode, index, active_file_id, writer, file_reader,
                   useless_value_bytes, status, vals, kv, last, hist, nops, thr,
                   wlog, conn>>

NextLocks ==
    \/ \E t \in Threads, prog \in LockPrograms, ks \in Shards, rs \in Shards :
           LockBegin(t, prog, ks, rs)
    \/ \E t \in Threads : LockStep(t)

SpecLocks == Init /\ [][NextLocks]_vars

(***************************************************************************)
(* Claims.                                                                 *)
(***************************************************************************)
\* the calls made so far are all among kinds, and none failed
OnlyCalls(kinds) == hist.clean /\ hist.ops \subseteq kinds
\* the same, of the calls before the last one
OnlyCallsBefore(kinds) == hist.wasClean /\ hist.ops \subseteq kinds

\* C1: with only set/remove/get calls made, all successful, a get(k) of a key
\* the calls left set to v returns Some(v), flushed or not.
C1_ReadYourWrites ==
    (OnlyCalls({"set", "remove", "get"}) /\ last.op = "get" /\ last.key \in DOMAIN kv)
        => last.res = Some(kv[last.key])

\* C2: after successful set calls and then flush(), get(k) of every key
\* written returns Some of the value of the last set(k, _).
C2_GetAfterFlush ==
    (OnlyCalls({"set", "flush", "get"}) /\ hist.afterFlush /\ status = "open")
        => \A k \in DOMAIN kv : get(St, k) = {Some(kv[k])}

\* C3: after successful set and remove calls, dropping the engine and
\* opening the directory again succeeds and get returns for every key what
\* the map of the calls holds.
C3_RecoveryIdentity ==
    (OnlyCallsBefore({"set", "remove", "get", "close", "open"}) /\ last.op = "open")
        => /\ last.res = Ok
           /\ \A k \in Keys : get(St, k) = {Expected(k)}

\* a merge ran in the last call (directly, or inline in set/remove)
MergeRan == last.mpre # EmptyMap

\* C4: when merge ran in a sequential run and returned Ok, get returns for
\* every key what it returned where the merge started.
C4_MergePreservesGets ==
    (MergeRan /\ last.res = Ok /\ status = "open") => Gets(St) = last.mpre

\* C5: after a merge the name of the active segment, the reader installed
\* for the active id and the active writer are the same file, and the active
\* id has no hint file.
C5_MergeLeavesActive ==
    (MergeRan /\ status = "open")
        => /\ Exists(dir, log_path(active_file_id, "log"))
           /\ dir[log_path(active_file_id, "log")] = writer.ino
           /\ active_file_id \in DOMAIN file_reader
           /\ file_reader[active_file_id] = writer.ino
           /\ ~Exists(dir, log_path(active_file_id, "hint"))

\* every thread has returned from its call
AllReturned == \A t \in Threads : thr[t].pc = "done"

\* the last record appended for key k by the concurrent callers
HasRecord(k) == \E i \in 1..Len(wlog) : wlog[i].key = k
LastRecord(k) ==
    wlog[CHOOSE i \in 1..Len(wlog) :
            /\ wlog[i].key = k
            /\ \A j \in (i + 1)..Len(wlog) : wlog[j].key # k]

\* the key directory holds for k what the record rec says
Corresponds(k, rec) ==
    IF rec.value = <<DELETED_CODE>>
    THEN k \notin DOMAIN index
    ELSE /\ k \in DOMAIN index
         /\ index[k] = IndexEntry(rec.file_id, rec.pos, Len(rec.value))

\* C6: when concurrent set and remove calls have all returned (and no merge
\* has rewritten the segments), the key directory holds for every key they
\* wrote the last record appended for that key.
C6_DirectoryFollowsAppendOrder ==
    (/\ AllReturned
     /\ \A t \in Threads : /\ thr[t].op \in {"set", "remove"}
                            /\ thr[t].res \in {Ok, KeyNotFound}
                            /\ ~thr[t].scanned)
        => \A k \in Keys : HasRecord(k) => Corresponds(k, LastRecord(k))

\* C7: a get(k) that returns while the merge of another thread is between
\* its scan and its return, with no thread writing, returns what get(k)
\* returned before the merge.
C7_GetDuringMerge ==
    \A t \in Threads, u \in Threads :
        (/\ thr[t].pc = "done" /\ thr[t].op = "get" /\ thr[t].overlapped
         /\ thr[u].op = "merge")
            => {thr[t].res} = get(Prepared, thr[t].key)

\* C8: when a set(k, v) or remove(k) returned Ok while the merge of another
\* thread was between its scan and its return, then after the merge returned
\* Ok get(k), with the active writer flushed, returns Some(v), or None for
\* the remove.
C8_WriteDuringMergeKept ==
    \A t \in Threads, u \in Threads :
        (/\ AllReturned
         /\ thr[t].op \in {"set", "remove"} /\ thr[t].res = Ok /\ thr[t].overlapped
         /\ thr[u].op = "merge" /\ thr[u].res = Ok)
            => get(flush(St), thr[t].key) =
                   {IF thr[t].op = "set" THEN Some(thr[t].val) ELSE None}

\* C9: with all calls successful, get(k) returns None for a key that was
\* never set or whose last successful call is remove(k), and a successful
\* set(k, v) leaves k in the key directory.
C9_NoneUnlessSet ==
    /\ (hist.clean /\ last.op = "get" /\ last.key \notin DOMAIN kv) => last.res = None
    /\ (last.op = "set" /\ last.res = Ok) => last.key \in DOMAIN index

\* a get returned None for a key that had been set and then removed
C9_Witness ==
    /\ hist.clean /\ last.op = "get" /\ last.res = None
    /\ last.key \in hist.removed /\ last.key \notin DOMAIN kv

\* C10: a remove(k) of a key that is not in the key directory returns
\* KeyNotFound and changes neither the files and the writer (no tombstone)
\* nor the key directory, the active id and useless_value_bytes.
C10_RemoveAbsent ==
    [][(nops' # nops /\ last'.op = "remove" /\ last'.key \notin DOMAIN index)
          => /\ last'.res = KeyNotFound
             /\ UNCHANGED <<dir, inode, writer, index, active_file_id,
                            useless_value_bytes>>]_vars

\* remove(k) returned KeyNotFound for a key an earlier remove(k) deleted
C10_Witness ==
    /\ last.op = "remove" /\ last.res = KeyNotFound
    /\ last.key \in hist.removed

\* C11: a set that returns an error leaves the key directory as it was, and
\* get returns for every key what it returned before the call (stated for the
\* calls made when the write buffer is empty, where get reads what was set)
C11_FailedSetChangesNothing ==
    [][(nops' # nops /\ last'.op = "set" /\ last'.res = Err)
          => /\ index' = index
             /\ writer.buf = << >> => Gets(St)' = Gets(St)]_vars

\* the record the last call appended, and the steps in which set/remove
\* returned Ok
LastRecordBytes ==
    SerializeLogEntry(LogEntry(last.key,
                               IF last.op = "set" THEN last.val ELSE <<DELETED_CODE>>))
WriteReturned == nops' # nops /\ last'.op \in {"set", "remove"} /\ last'.res = Ok
Crosses == writer.pos + Len(LastRecordBytes') > log_file_max_bytes

\* C12: a set/remove whose record does not fit the active segment makes the
\* active id the old id plus one and writes the record at the start of the
\* new segment, every key whose live record is in the old or the new segment
\* is readable by get afterwards, and a record that fits causes no rollover
C12_Rollover ==
    [][/\ (WriteReturned /\ Crosses) =>
            /\ active_file_id' = active_file_id + 1
            /\ writer'.ino = dir'[log_path(active_file_id', "log")]
            /\ inode'[writer'.ino] \o writer'.buf = LastRecordBytes'
            /\ last'.op = "set" =>
                 index'[last'.key] = IndexEntry(active_file_id', Len(LastRecordBytes'),
                                                Len(last'.val))
            /\ hist'.clean =>
                 \A k \in DOMAIN index' :
                     index'[k].file_id \in {active_file_id, active_file_id'}
                         => get(St, k)' = {Some(kv'[k])}
       /\ (WriteReturned /\ ~Crosses) => active_file_id' = active_file_id]_vars

\* the files with the partial record of the last call cut off the last segment
LastLog == log_path(get_all_sorted_log_file_id(dir)[Len(get_all_sorted_log_file_id(dir))],
                    "log")
Untorn ==
    [dir |-> dir,
     inode |-> [inode EXCEPT ![dir[LastLog]] =
                    SubSeq(@, 1, Len(@) - Len(last.val))]]

\* C13: when the last segment ends in a partial record, open succeeds, the
\* key directory is the one recovered from the records before the partial
\* record, and the sets that follow succeed
C13_TornTailRecovery ==
    [][(last.op = "torn" /\ last'.op = "open" /\ open(Untorn).tag = "ok")
          => /\ last'.res = Ok
             /\ index' = open(Untorn).s.index
             /\ \A k \in Keys, v \in vals : (set(St, k, v).tag = "ok")']_vars

\* key k is in the directory with an empty value that get returns
EmptyValueLive(k) ==
    k \in DOMAIN index /\ index[k].v_size = 0 /\ get(St, k) = {Some(<< >>)}

\* merge was not called directly (only by set and remove, over the threshold)
NoMergeCall == "merge" \notin hist.ops

\* C14: a record written by set is never taken for a tombstone: after
\* set(k, "") the key is in the directory with v_size 0 and get returns
\* Some(""); recovery and the merge a set/remove starts keep the keys whose
\* value is "", and recovery drops the removed keys only
C14_EmptyValueIsPut ==
    /\ (last.op = "set" /\ last.val = << >> /\ last.res = Ok) => EmptyValueLive(last.key)
    /\ (last.op = "open" /\ last.res = Ok /\ hist.wasClean /\ NoMergeCall)
          => /\ \A k \in DOMAIN kv : kv[k] = << >> => EmptyValueLive(k)
             /\ DOMAIN index = DOMAIN kv
    /\ (last.op \in {"set", "remove"} /\ MergeRan /\ last.res = Ok /\ hist.clean
          /\ NoMergeCall)
          => \A k \in DOMAIN kv : kv[k] = << >> => EmptyValueLive(k)

\* open has recovered a key set to "" from its log record, and has left out
\* a key that was removed
C14_Witness ==
    /\ last.op = "open" /\ last.res = Ok /\ hist.wasClean /\ NoMergeCall
    /\ \E k \in DOMAIN kv : kv[k] = << >> /\ EmptyValueLive(k)
    /\ \E k \in hist.removed : k \notin DOMAIN index

\* the directory entry of key k refers to bytes of an existing segment file
\* that are the value v
RefersTo(k, v) ==
    /\ Exists(dir, log_path(index[k].file_id, "log"))
    /\ Len(inode[dir[log_path(index[k].file_id, "log")]]) >= index[k].v_pos
    /\ index[k].v_pos >= index[k].v_size
    /\ SubSeq(inode[dir[log_path(index[k].file_id, "log")]],
              index[k].v_pos - index[k].v_size + 1, index[k].v_pos) = v

\* C15: between operations every key directory entry refers to a segment
\* whose .log exists with a length of at least v_pos, v_pos >= v_size, and
\* the bytes [v_pos - v_size, v_pos) of the file are the key's live value
C15_DirectoryInvariant ==
    (status = "open" /\ hist.clean)
        => \A k \in DOMAIN index : k \in DOMAIN kv /\ RefersTo(k, kv[k])

\* the files the directory holds after a merge whose last merged id is m
FilesAfterMerge(m) ==
    {log_path(i, "log") : i \in 0..m} \cup {log_path(i, "hint") : i \in 0..m}
        \cup {log_path(active_file_id, "log")}

\* C16: after a merge the files of the base directory are exactly <i>.log
\* and <i>.hint for the merged ids 0..m, and <active>.log: no temp file, no
\* input segment and no hint file without its log remains
C16_FilesAfterMerge ==
    (MergeRan /\ last.res = Ok /\ status = "open")
        => \E m \in 0..MaxFileId : DOMAIN dir = FilesAfterMerge(m)

\* the base directory without its hint files
WithoutHints ==
    [dir |-> [n \in {x \in DOMAIN dir : x[2] # "hint"} |-> dir[n]], inode |-> inode]

\* two results of open, or of loading one file, give the same key directory
SameDirectory(x, y) == x.tag = y.tag /\ (x.tag = "ok" => x.s.index = y.s.index)
SameEntries(x, y) == x.tag = y.tag /\ (x.tag = "ok" => x.index = y.index)

\* C17: for every segment with a hint file, loading the hint file gives the
\* entries that scanning the .log gives, and open produces the same key
\* directory with the hint files present or deleted
C17_HintsAreOptimization ==
    status = "closed" =>
        /\ \A id \in 0..MaxFileId :
             (Exists(dir, log_path(id, "hint")) /\ Exists(dir, log_path(id, "log")))
                 => SameEntries(load_from_hint_file(id, inode[dir[log_path(id, "hint")]],
                                                    EmptyMap),
                                load_from_log_file(id, inode[dir[log_path(id, "log")]],
                                                   EmptyMap))
        /\ SameDirectory(open([dir |-> dir, inode |-> inode]), open(WithoutHints))

\* the bytes of <id>.log, and the ids of the .log files
LogBytes(id) == inode[dir[log_path(id, "log")]]
LogIds == {n[1] : n \in {x \in DOMAIN dir : x[2] = "log"}}

\* set or remove returned without having run a merge
WroteNoMerge ==
    nops' # nops /\ last'.op \in {"set", "remove"} /\ last'.res = Ok
        /\ last'.mpre = EmptyMap

\* C18: there is one active segment, active_file_id is the highest id of the
\* .log files and the writer appends to that file; a set/remove appends its
\* record to the active segment only, and leaves the bytes of every
\* lower-numbered segment as they are
C18_OneActiveSegment ==
    /\ [](status = "open" =>
            /\ active_file_id \in LogIds
            /\ \A id \in LogIds : id <= active_file_id
            /\ writer.ino = dir[log_path(active_file_id, "log")])
    /\ [][WroteNoMerge =>
            /\ \A id \in LogIds : id < active_file_id =>
                   (id \in LogIds' /\ LogBytes(id)' = LogBytes(id))
            /\ ~Crosses =>
                   LogBytes(active_file_id)' \o writer'.buf
                       = (LogBytes(active_file_id) \o writer.buf) \o LastRecordBytes']_vars

\* C19: every segment file, with the bytes its writer still buffers, is at
\* most log_file_max_bytes long, whatever the size of the records set took
C19_SegmentSizeCapped ==
    status = "open" =>
        \A id \in LogIds :
            Len(LogBytes(id)) + (IF dir[log_path(id, "log")] = writer.ino
                                 THEN Len(writer.buf) ELSE 0) <= log_file_max_bytes

\* a <= b as values of the AtomicU64 (a value below zero is that value plus
\* 2^64)
U64Leq(a, b) == IF (a < 0) = (b < 0) THEN a <= b ELSE b < 0

\* C20: a set, remove or get that runs no merge leaves useless_value_bytes
\* as it is or increases it
C20_UselessNonDecreasing ==
    [][(status = "open" /\ last'.op \in {"set", "remove", "get"}
          /\ last'.mpre = EmptyMap /\ status' = "open")
          => U64Leq(useless_value_bytes, useless_value_bytes')]_vars

\* both threads have returned from remove(k), and no thread called set
BothRemoved(k) ==
    AllReturned /\ \A t \in Threads : thr[t].op = "remove" /\ thr[t].key = k

\* the tombstones the concurrent callers appended for key k
Tombstones(k) ==
    {i \in 1..Len(wlog) : wlog[i].key = k /\ wlog[i].value = <<DELETED_CODE>>}

\* C21: when two threads call remove(k) concurrently on a live key, one call
\* returns Ok and the other KeyNotFound, one tombstone is appended, and
\* useless_value_bytes is increased once (by v_size + 1)
C21_ConcurrentRemove ==
    \A k \in DOMAIN Prepared.index :
        BothRemoved(k)
            => /\ {thr[t].res : t \in Threads} = {Ok, KeyNotFound}
               /\ Cardinality(Tombstones(k)) = 1
               /\ useless_value_bytes
                      = Prepared.useless_value_bytes + Prepared.index[k].v_size + 1

\* the records of the bytes f from offset p as the format defines them (each
\* as long as its k_size and v_size say), with the offset after each value
RECURSIVE RecordsFrom(_, _)
RecordsFrom(f, p) ==
    IF p + 2 * U64_BYTES > Len(f) THEN << >>
    ELSE LET ks == u8_arr_to_u64(SubSeq(f, p + 1, p + 8))
             vs == u8_arr_to_u64(SubSeq(f, p + 9, p + 16))
         IN  IF p + 16 + ks + vs > Len(f) THEN << >>
             ELSE <<[key |-> SubSeq(f, p + 17, p + 16 + ks),
                     value |-> SubSeq(f, p + 17 + ks, p + 16 + ks + vs),
                     pos |-> p + 16 + ks + vs]>>
                  \o RecordsFrom(f, p + 16 + ks + vs)

\* the hint records of the bytes f from offset p
RECURSIVE HintsFrom(_, _)
HintsFrom(f, p) ==
    IF p + 3 * U64_BYTES > Len(f) THEN << >>
    ELSE LET ks == u8_arr_to_u64(SubSeq(f, p + 1, p + 8))
         IN  IF p + 24 + ks > Len(f) THEN << >>
             ELSE <<[key |-> SubSeq(f, p + 25, p + 24 + ks),
                     v_size |-> u8_arr_to_u64(SubSeq(f, p + 9, p + 16)),
                     v_pos |-> u8_arr_to_u64(SubSeq(f, p + 17, p + 24))]>>
                  \o HintsFrom(f, p + 24 + ks)

\* the records of <id>.log and of <id>.hint
LogRecords(id) == RecordsFrom(LogBytes(id), 0)
HintRecords(id) == HintsFrom(inode[dir[log_path(id, "hint")]], 0)

\* the sealed segments: every .log but the one with the highest id
SealedIds == {id \in LogIds : \E j \in LogIds : j > id}

\* the keys whose directory entry is a record of a sealed segment
LiveSealed ==
    {k \in DOMAIN index :
        /\ index[k].file_id \in SealedIds
        /\ \E r \in Range(LogRecords(index[k].file_id)) :
               r.key = k /\ r.pos = index[k].v_pos}

\* the value bytes the directory entry of k refers to
LiveValue(k) ==
    SubSeq(LogBytes(index[k].file_id), index[k].v_pos - index[k].v_size + 1,
           index[k].v_pos)

\* a direct call of merge returned Ok
MergeReturned == nops' # nops /\ last'.op = "merge" /\ last'.res = Ok

\* record j of merged segment i is the record of key k
IsRecordOf(i, j, k) == LogRecords(i)[j].key = k

Retires(id) ==
    \/ Exists(dir, log_path(id, "log")) /\ ~Exists(dir', log_path(id, "log"))
    \/ id \in DOMAIN file_reader /\ id \notin DOMAIN file_reader'

\* the merged files are still under their temporary names
TempFiles == {n \in DOMAIN dir : n[2] \in {"log.temp", "hint.temp"}}

\* C23: merge deletes the .log of an input segment and evicts its reader only
\* when the merged files have been renamed to .log and .hint (none is left
\* under its .temp name)
C23_DeleteAfterRename ==
    [][\A id \in 0..MaxFileId : Retires(id) => TempFiles = {}]_vars

\* C24: in every history of set, remove, get and merge calls the counter
\* useless_value_bytes never wraps around: merge never subtracts more than
\* the counter holds (a wrapped counter is a value below zero)
C24_NoUnderflow ==
    (status = "open" /\ hist.ops \subseteq {"set", "remove", "get", "merge"})
        => useless_value_bytes >= 0

\* record r of segment id is reclaimable: a tombstone, a record of a key that
\* is not in the directory, or a record the directory entry does not refer to
Reclaimable(id, r) ==
    \/ r.value = <<DELETED_CODE>>
    \/ r.key \notin DOMAIN index
    \/ index[r.key].file_id # id \/ index[r.key].v_pos # r.pos

\* the value bytes of the reclaimable records among recs, records of segment id
RECURSIVE ReclaimableBytes(_, _)
ReclaimableBytes(id, recs) ==
    IF recs = << >> THEN 0
    ELSE (IF Reclaimable(id, Head(recs)) THEN Len(Head(recs).value) ELSE 0)
             + ReclaimableBytes(id, Tail(recs))

\* the same over the sealed segments ids
RECURSIVE SealedReclaimable(_)
SealedReclaimable(ids) ==
    IF ids = {} THEN 0
    ELSE LET id == CHOOSE x \in ids : TRUE
         IN  ReclaimableBytes(id, LogRecords(id)) + SealedReclaimable(ids \ {id})

\* C25: useless_value_bytes is at most the number of value bytes of the
\* records in sealed segments that are superseded, belong to a removed key or
\* are tombstones
C25_UselessCountsSealed ==
    (status = "open" /\ hist.clean)
        => U64Leq(useless_value_bytes, SealedReclaimable(SealedIds))

\* a step of a call that rolled the active segment over
RolledOver == status = "open" /\ status' = "open" /\ active_file_id' = active_file_id + 1

\* C26: a rollover writes the old writer's buffer to the old segment before
\* the new segment is written to, and the record of every key whose
\* directory entry is in a sealed segment is read whole by get, without a
\* call of flush
C26_SealedSegmentsFlushed ==
    /\ [][(RolledOver /\ writer.ino \in DOMAIN inode')
            => inode'[writer.ino] = inode[writer.ino] \o writer.buf]_vars
    /\ []((status = "open" /\ hist.clean)
            => \A k \in DOMAIN index :
                  index[k].file_id < active_file_id
                      => k \in DOMAIN kv /\ get(St, k) = {Some(kv[k])})

\* C27: when open has recovered a segment that ended in a partial record and
\* records were appended afterwards, a close and reopen succeeds and get
\* returns, for every key set or removed after the recovery, what the calls
\* left
C27_AppendAfterTornTail ==
    [][(last.op = "close" /\ last'.op = "open" /\ hist.clean /\ hist.sinceTorn # {})
          => /\ last'.res = Ok
             /\ \A k \in hist.sinceTorn : get(St, k)' = {Expected(k)}]_vars

\* the base directory without the .temp files of a merge
WithoutTemps ==
    [dir |-> [n \in (DOMAIN dir) \ TempFiles |-> dir[n]], inode |-> inode]

\* two results of open are the same engine
SameEngine(x, y) ==
    /\ x.tag = y.tag
    /\ x.tag = "ok" =>
         /\ x.s.index = y.s.index
         /\ x.s.file_reader = y.s.file_reader
         /\ x.s.active_file_id = y.s.active_file_id
         /\ x.s.useless_value_bytes = y.s.useless_value_bytes

\* an id below the id of a segment has no .log
HasGap == \E id \in LogIds : \E j \in 0..id : j \notin LogIds

\* segment id by itself loads without a failure
Loads(id) ==
    IF Exists(dir, log_path(id, "hint"))
    THEN load_from_hint_file(id, inode[dir[log_path(id, "hint")]], EmptyMap).tag = "ok"
    ELSE load_from_log_file(id, LogBytes(id), EmptyMap).tag = "ok"

\* the result x of open has a reader for every segment listed, and the
\* highest id as the active id
ListsAll(x) ==
    /\ x.tag = "ok"
    /\ DOMAIN x.s.file_reader = LogIds
    /\ \A id \in LogIds : id <= x.s.active_file_id
    /\ x.s.active_file_id \in LogIds

\* C28: open gives the same key directory, readers, active id and
\* useless_value_bytes with the .log.temp and .hint.temp files of a merge in
\* the directory as without them, and a missing id in the sequence of .log
\* files is skipped: open does not fail because of it
C28_OpenIgnoresTemps ==
    status = "closed" =>
        /\ SameEngine(open([dir |-> dir, inode |-> inode]), open(WithoutTemps))
        /\ (HasGap /\ \A id \in LogIds : Loads(id))
              => ListsAll(open([dir |-> dir, inode |-> inode]))

\* open has returned an engine on a directory that holds .temp files and has
\* no .log for an id below the active one
C28_Witness ==
    /\ last.op = "open" /\ last.res = Ok /\ status = "open"
    /\ "crash" \in hist.ops
    /\ TempFiles # {} /\ HasGap /\ index # EmptyMap

\* the keys whose stored value is longer than 255 bytes
LongKeys == {k \in DOMAIN kv : Len(kv[k]) > STACK_BUF_LEN}

\* C29: a value longer than 255 bytes is read back whole: once its bytes
\* are in the file get returns all of them, and neither get nor the scan of
\* open nor the scan of merge panics on its record
C29_LongRecordsReadWhole ==
    [][/\ (status = "open" /\ hist.clean /\ writer.buf = << >>
             /\ last'.op = "get" /\ last'.key \in LongKeys)
          => last'.res = Some(kv[last'.key])
       /\ (hist.clean /\ LongKeys # {} /\ last' # last
             /\ last'.op \in {"open", "merge"})
          => last'.res # Panic]_vars

\* C30: a thread that holds the mutex of the active writer takes no other
\* lock: the step made under the mutex (write_and_flush) writes neither to
\* the map of segment readers nor to the key directory, whose every write
\* takes the lock of a shard
C30_NoLockUnderWriterMutex ==
    [][wlog' # wlog => (file_reader' = file_reader /\ index' = index)]_vars

\* the directory entry of key k names a segment that has no reader
NoReaderFor(k) == k \in DOMAIN index /\ index[k].file_id \notin DOMAIN file_reader

\* C31: get of a key whose directory entry names a segment without a reader
\* returns InnerErr, neither None nor a value, and leaves the engine open
\* and as it was
C31_GetWithoutReader ==
    [][(status = "open" /\ last'.op = "get" /\ last' # last /\ NoReaderFor(last'.key))
          => /\ last'.res = InnerErr
             /\ status' = "open"
             /\ UNCHANGED <<dir, inode, index, active_file_id, writer,
                            file_reader, useless_value_bytes>>]_vars

\* get has returned InnerErr for such a key, and the engine is open
C31_Witness ==
    /\ status = "open" /\ last.op = "get" /\ last.res = InnerErr
    /\ NoReaderFor(last.key)

\* C32: every Set, Get or Remove request the handler has read has its
\* response written before the next one is handled, in the order of the
\* requests: the i-th frame written is the response to the i-th request,
\* Value or Null for a result and Error for an error of the engine
C32_OneResponsePerRequest ==
    /\ Len(conn.out) = Len(conn.reqs)
    /\ \A i \in 1..Len(conn.reqs) :
         conn.out[i] = FrameWrite(Response(conn.reqs[i].frame.key, conn.reqs[i].res))

\* the bytes written to segment id in the directory d with the files f: those
\* of its file and, for the segment of the writer w, those w still buffers
SegmentBytes(d, f, w, id) ==
    f[d[log_path(id, "log")]]
      \o (IF w.ino = d[log_path(id, "log")] THEN w.buf ELSE << >>)

\* segment id holds the record rec ending at pos
RecordEndsAt(d, f, w, id, pos, rec) ==
    /\ Exists(d, log_path(id, "log"))
    /\ pos <= Len(SegmentBytes(d, f, w, id))
    /\ pos >= Len(rec)
    /\ SubSeq(SegmentBytes(d, f, w, id), pos - Len(rec) + 1, pos) = rec

MergedBelowUnmerged(sc, ids) ==
    /\ sc.merged + 1 <= Len(sc.old)
    /\ \A id \in ids \ {sc.old[i] : i \in 1..Len(sc.old)} : sc.merged < id

\* C34: a merge that has at least one sealed segment to read writes at most
\* as many merged segments as it reads, so every merged id 0..merged is below
\* the id of the active segment and of every other segment it did not read
C34_MergedIdsBelowUnmerged ==
    [][(MergeReturned /\ Len(MergeScan(St).old) >= 1)
          => MergedBelowUnmerged(MergeScan(St), LogIds)]_vars

\* open on the directory fs gives an engine whose get returns for every key
\* of the engine s what get of s returns
RecoversGets(r, s) ==
    /\ r.tag = "ok"
    /\ \A k \in DOMAIN s.index : get(r.s, k) = get(s, k)

\* C35: when the process dies at a step of merge, with every record written
\* before in its file, opening the directory again gives for every key that
\* was live before the merge the get result it had before the merge
C35_CrashInMergeKeepsGets ==
    [][(last'.op = "crash" /\ nops' # nops /\ writer.buf = << >>)
          => RecoversGets(open([dir |-> dir', inode |-> inode']), St)]_vars

\* the places (segment, record number) of the records of key k in the sealed
\* segments
PlacesOf(k) ==
    {p \in {<<i, j>> : i \in SealedIds, j \in 1..(log_file_max_bytes \div 16)} :
        p[2] <= Len(LogRecords(p[1])) /\ IsRecordOf(p[1], p[2], k)}

\* C36: two merges run by two threads at once do not interfere: neither
\* returns an error, and when both have returned the merged segments hold
\* the live record of every key of a sealed segment exactly once
C36_ConcurrentMerges ==
    (\A t \in Threads : thr[t].op = "merge")
       => /\ \A t \in Threads : thr[t].pc = "done" => thr[t].res = Ok
          /\ AllReturned =>
               \A k \in DOMAIN index :
                   index[k].file_id \in SealedIds => Cardinality(PlacesOf(k)) = 1

\* the threads of S wait for locks that threads of S hold
Deadlocked(S) == S # {} /\ \A t \in S : \E u \in S \ {t} : WaitsFor(t, u)

\* lock b is acquired in some call while lock a is held
HeldBefore(a, b) ==
    \E prog \in LockPrograms : \E i \in 1..Len(prog) : \E j \in (i + 1)..Len(prog) :
        /\ prog[i] = Acq(a, prog[i].mode) /\ prog[j] = Acq(b, prog[j].mode)
        /\ \A m \in (i + 1)..(j - 1) : prog[m] # Rel(a)

\* C37: concurrent get, set, remove and inline merge calls do not deadlock:
\* no set of threads waits in a circle, and the order in which the calls take
\* the writer mutex, a key-directory shard and a reader-map shard has no cycle
LockOrderAcyclic ==
    /\ \A a, b \in {"writer", "index", "file_reader"} :
          HeldBefore(a, b) => (a # b /\ ~HeldBefore(b, a))
    /\ ~(HeldBefore("writer", "index") /\ HeldBefore("index", "file_reader")
           /\ HeldBefore("file_reader", "writer"))
    /\ ~(HeldBefore("writer", "file_reader") /\ HeldBefore("file_reader", "index")
           /\ HeldBefore("index", "writer"))

C37_NoDeadlock ==
    /\ \A S \in SUBSET Threads : ~Deadlocked(S)
    /\ (\A t \in Threads : ~InCall(t)) => LockOrderAcyclic

\* a set holds the writer mutex and waits for the reader-map shard that a get
\* holds together with its key-directory guard
C37_Witness ==
    \E t \in Threads : \E u \in Threads \ {t} :
        /\ WaitsFor(t, u)
        /\ \E h \in lk[t].held : h.lock[1] = "writer"
        /\ {h.lock[1] : h \in lk[u].held} = {"index", "file_reader"}

\* the calls made so far are set, remove, get and flush calls that did not
\* fail, and no merge has left a file: the directory holds .log files only
OnlySetsAndRemoves ==
    /\ hist.clean /\ hist.ops \subseteq {"set", "remove", "get", "flush"}
    /\ \A n \in DOMAIN dir : n[2] = "log"

\* open on the directory fs counts u useless bytes
RecountsUseless(r, u) == r.tag = "ok" /\ r.s.useless_value_bytes = u

\* C38: when an engine that has served set and remove calls only, without a
\* merge and without hint files, is closed, open counts from the log files
\* the useless_value_bytes the engine held just before the close
C38_RecoveryAccounting ==
    [][(status = "open" /\ last'.op = "close" /\ nops' # nops /\ OnlySetsAndRemoves)
          => RecountsUseless(open([dir |-> dir', inode |-> inode']),
                             useless_value_bytes)]_vars

\* active_file_id of the engine s names the segment its writer appends to,
\* and that segment has a reader
ActiveIsWritten(s) ==
    /\ log_path(s.active_file_id, "log") \in DOMAIN s.dir
    /\ s.writer.ino = s.dir[log_path(s.active_file_id, "log")]
    /\ s.active_file_id \in DOMAIN s.file_reader

\* C39: a set that needs a rollover and returns an error before it has
\* published anything leaves active_file_id naming the segment the active
\* writer appends to, with a reader installed
C39_FailedRolloverKeepsActive ==
    [][(/\ status = "open" /\ nops' # nops
        /\ last'.op = "set" /\ last'.res = Err /\ index' = index
        /\ NeedsRollover(St, Len(SerializeLogEntry(LogEntry(last'.key, last'.val))))
        /\ ActiveIsWritten(St))
          => ActiveIsWritten([dir |-> dir', writer |-> writer',
                              active_file_id |-> active_file_id',
                              file_reader |-> file_reader'])]_vars

====
